---- MODULE Spec2Model ----
(***************************************************************************)
(* Laser-maze solver: the beam simulator (Checker), the branch generator   *)
(* (SolverNode2) and the search driver (LaserMazeSolver), as state         *)
(* machines over the 5x5 board.                                            *)
(***************************************************************************)
EXTENDS Integers, Sequences, FiniteSets, TLC

VARIABLES
    initial_grid_config,   \* LaserMazeSolver.initial_grid_config
    tokens_to_be_added,    \* LaserMazeSolver.tokens_to_be_added
    targets,               \* LaserMazeSolver.targets
    stack,                 \* LaserMazeSolver.stack
    result,                \* what solve() returned (kind = "Running" until it returns)
    expanded,              \* number of nodes solve() has popped so far
    checker,               \* a Checker whose check() is being run step by step
    outer_iterations,      \* iterations of the outer while loop of Checker::check so far
    checker_pc,            \* where that run of check() is: "idle", "created", "running", "done"
    self_token,            \* a Token on which the methods of Token are called
    interaction,           \* the last beam interaction of that token
    par_stack,             \* dfs_par: the Vec<Puzzle> behind the Arc<Mutex<..>>
    par_lock,              \* dfs_par: the worker holding the Mutex, 0 when it is free
    workers,               \* dfs_par: position, node and return value of each worker thread
    par_main               \* dfs_par: the calling thread: spawning, joining, returned

vars == <<initial_grid_config, tokens_to_be_added, targets, stack, result,
          expanded, checker, outer_iterations, checker_pc, self_token, interaction,
          par_stack, par_lock, workers, par_main>>

solverVars == <<initial_grid_config, tokens_to_be_added, targets, stack, result, expanded>>
checkerVars == <<checker, outer_iterations, checker_pc>>
tokenVars == <<self_token, interaction>>
parVars == <<par_stack, par_lock, workers, par_main>>

(***************************************************************************)
(* Orientation                                                             *)
(***************************************************************************)
North == 0
East == 1
South == 2
West == 3
\* Option<Orientation>::None
NoOrientation == 4

ORIENTATION_ORDER == <<North, East, South, West>>

to_index(o) == o

\* indexing ORIENTATION_ORDER out of range is a panic (TLC reports it)
from_index(idx) == ORIENTATION_ORDER[idx + 1]

\* usize arithmetic wraps modulo a power of two that 4 divides
USIZE_MODULUS == 65536

\* a subtraction that stops at 0 instead of wrapping
saturating_sub(a, b) == IF a < b THEN 0 ELSE a - b

wrapping_sub(a, b) == (a - b + USIZE_MODULUS) % USIZE_MODULUS

reorient_inbound_laser(self, inbound_orientation) ==
    LET self_orientation_ordinal_value == to_index(self)
        laser_orientation_ordinal_value == to_index(inbound_orientation)
        idx == wrapping_sub(laser_orientation_ordinal_value,
                            self_orientation_ordinal_value) % 4
    IN  from_index(idx)

reorient_by_offset(self, offset) ==
    LET idx == (to_index(self) + offset) % 4
    IN  ORIENTATION_ORDER[idx + 1]

\* an outbound direction left in the frame of the token
reorient_outbound_laser_unrotated(self, outbound_orientation) == outbound_orientation

reorient_outbound_laser(self, outbound_orientation) ==
    reorient_by_offset(self, to_index(outbound_orientation))

(***************************************************************************)
(* Token                                                                   *)
(***************************************************************************)
TOKEN_TYPES == <<"Laser", "TargetMirror", "BeamSplitter", "DoubleMirror",
                 "Checkpoint", "CellBlocker">>

\* Option<Token>::None, with the fields of a token so that cells compare
NoToken == [type_ |-> "None", orientation |-> NoOrientation, lit |-> FALSE,
            target_lit |-> "None", must_light |-> FALSE]

\* target_lit is Option<bool>: "None", "Some(false)", "Some(true)"
Token_new(type_, orientation, must_light) ==
    [type_       |-> type_,
     orientation |-> IF type_ = "CellBlocker" THEN North ELSE orientation,
     lit         |-> (type_ = "CellBlocker") \/ (type_ = "Laser"),
     target_lit  |-> IF type_ = "TargetMirror" THEN "Some(false)" ELSE "None",
     must_light  |-> IF type_ = "TargetMirror" THEN must_light ELSE FALSE]

\* a reset that leaves target_lit as it is
reset_lit_only(token) ==
    [token EXCEPT !.lit = (token.type_ = "CellBlocker") \/ (token.type_ = "Laser")]

reset(token) ==
    [token EXCEPT !.lit = (token.type_ = "CellBlocker") \/ (token.type_ = "Laser"),
                  !.target_lit = IF token.target_lit # "None" THEN "Some(false)" ELSE @]

\* a toggle that does not look at the type
toggle_must_light_any_type(token) == [token EXCEPT !.must_light = ~@]

toggle_must_light(token) ==
    IF token.type_ = "TargetMirror"
    THEN [token EXCEPT !.must_light = ~@]
    ELSE token

OutboundLaser(o) == [kind |-> "OutboundLaser", orientation |-> o, valid |-> TRUE]
NoOutboundLaser(valid) == [kind |-> "NoOutboundLaser", orientation |-> NoOrientation,
                           valid |-> valid]
NONE_VALID == NoOutboundLaser(TRUE)
NONE_INVALID == NoOutboundLaser(FALSE)

\* a mirror turned the other way: North <-> East, South <-> West
DoubleMirrorReflection_other_diagonal(d) ==
    CASE d = North -> East
      [] d = East  -> North
      [] d = South -> West
      [] d = West  -> South

\* a mirror with one face, which a half turn does not map onto itself
DoubleMirrorReflection_one_face(d) ==
    CASE d = North -> West
      [] d = West  -> North
      [] d = South -> West
      [] d = East  -> North

\* the reflection of the DoubleMirror in its reference orientation
DoubleMirrorReflection(d) ==
    CASE d = North -> West
      [] d = West  -> North
      [] d = South -> East
      [] d = East  -> South

\* returns the token after the interaction and the two results
reference_outbound_lasers_given_inbound_laser_direction(token, d) ==
    CASE token.type_ = "Laser" ->
            [token |-> token,
             results |-> IF d = South THEN <<NONE_VALID, NONE_VALID>>
                         ELSE <<NONE_INVALID, NONE_INVALID>>]
      [] token.type_ = "Checkpoint" ->
            IF d = North \/ d = South
            THEN [token |-> [token EXCEPT !.lit = TRUE],
                  results |-> <<OutboundLaser(d), NONE_VALID>>]
            ELSE [token |-> token, results |-> <<NONE_INVALID, NONE_INVALID>>]
      [] token.type_ = "TargetMirror" ->
            (CASE d = North -> [token |-> [token EXCEPT !.lit = TRUE],
                                results |-> <<OutboundLaser(West), NONE_VALID>>]
               [] d = West  -> [token |-> [token EXCEPT !.lit = TRUE],
                                results |-> <<NONE_INVALID, NONE_INVALID>>]
               [] d = South -> [token |-> [token EXCEPT !.lit = TRUE,
                                                        !.target_lit = "Some(true)"],
                                results |-> <<NONE_VALID, NONE_VALID>>]
               [] d = East  -> [token |-> [token EXCEPT !.lit = TRUE],
                                results |-> <<OutboundLaser(South), NONE_VALID>>])
      [] token.type_ = "DoubleMirror" ->
            [token |-> [token EXCEPT !.lit = TRUE],
             results |-> <<OutboundLaser(DoubleMirrorReflection(d)), NONE_VALID>>]
      [] token.type_ = "CellBlocker" ->
            [token |-> token, results |-> <<OutboundLaser(d), NONE_VALID>>]
      [] token.type_ = "BeamSplitter" ->
            [token |-> [token EXCEPT !.lit = TRUE],
             results |-> <<OutboundLaser(DoubleMirrorReflection(d)), OutboundLaser(d)>>]

\* precondition (an expect in the code): token.orientation is set
outbound_lasers_given_inbound_laser_direction(token, laser_inbound_orientation) ==
    LET reoriented_direction ==
            reorient_inbound_laser(token.orientation, laser_inbound_orientation)
        ref == reference_outbound_lasers_given_inbound_laser_direction(
                   token, reoriented_direction)
        back(r) == IF r.kind = "OutboundLaser"
                   THEN OutboundLaser(reorient_outbound_laser(token.orientation,
                                                              r.orientation))
                   ELSE r
    IN  [token |-> ref.token,
         results |-> <<back(ref.results[1]), back(ref.results[2])>>]

\* a range that tries only the first orientation of each token type
orientation_range_first_only(type_) ==
    CASE type_ = "TargetMirror" -> <<0, 1, 2, 3>>
      [] type_ = "Laser"       -> <<0, 1, 2, 3>>
      [] OTHER                  -> <<0>>

orientation_range(type_) ==
    CASE type_ = "BeamSplitter" -> <<0, 1>>
      [] type_ = "DoubleMirror" -> <<0, 1>>
      [] type_ = "Checkpoint"   -> <<0, 1>>
      [] type_ = "CellBlocker"  -> <<0>>
      [] OTHER                  -> <<0, 1, 2, 3>>

(***************************************************************************)
(* The methods of Token, called one at a time on one token                 *)
(***************************************************************************)
\* no interaction yet
NoInteraction ==
    [kind |-> "None", inbound |-> NoOrientation, before |-> NoToken,
     after |-> NoToken, local |-> NoOrientation, back |-> NoOrientation,
     results |-> <<NONE_INVALID, NONE_INVALID>>]

\* dfs_par has not been called
ParIdle ==
    /\ par_stack = <<>>
    /\ par_lock = 0
    /\ workers = <<>>
    /\ par_main = [pc |-> "idle", puzzle |-> <<>>, spawned |-> 0, joined |-> 0, ret |-> <<>>]

\* outbound_lasers_given_inbound_laser_direction(&mut self, d) on an oriented
\* token: the token is updated (`before' and `after' keep its two values) and
\* the two results are returned; `local' is
\* what reorient_inbound_laser gave and `back' what reorient_outbound_laser
\* makes of it
TokenInteract ==
    /\ interaction.kind # "Panic"
    /\ self_token.orientation # NoOrientation
    /\ \E d \in North .. West :
          LET r == outbound_lasers_given_inbound_laser_direction(self_token, d)
              local == reorient_inbound_laser(self_token.orientation, d)
          IN  /\ self_token' = r.token
              /\ interaction' =
                    [kind |-> "Done", inbound |-> d, before |-> self_token,
                     after |-> r.token,
                     local |-> local,
                     back |-> reorient_outbound_laser(self_token.orientation, local),
                     results |-> r.results]
    /\ UNCHANGED <<solverVars, checkerVars, parVars>>

\* the same call on a token without orientation: the expect panics
TokenInteractUnoriented ==
    /\ interaction.kind # "Panic"
    /\ self_token.orientation = NoOrientation
    /\ interaction' = [NoInteraction EXCEPT !.kind = "Panic", !.before = self_token]
    /\ UNCHANGED <<solverVars, checkerVars, parVars, self_token>>

TokenReset ==
    /\ interaction.kind # "Panic"
    /\ self_token' = reset(self_token)
    /\ UNCHANGED <<solverVars, checkerVars, parVars, interaction>>

TokenToggleMustLight ==
    /\ interaction.kind # "Panic"
    /\ self_token' = toggle_must_light(self_token)
    /\ UNCHANGED <<solverVars, checkerVars, parVars, interaction>>

(***************************************************************************)
(* ActiveLaser                                                             *)
(***************************************************************************)
NumCells == 25
Cells == 0 .. (NumCells - 1)
\* Option<usize>::None of next_position
NoPosition == 25
\* Option<ActiveLaser>::None
NoLaser == [cell_index |-> NoPosition, orientation |-> NoOrientation]

ActiveLaser(cell_index, orientation) ==
    [cell_index |-> cell_index, orientation |-> orientation]

\* a next_position that steps East and West without looking at the column
next_position_wrapping(laser) ==
    CASE laser.orientation = North ->
            IF laser.cell_index >= 20 THEN NoPosition ELSE laser.cell_index + 5
      [] laser.orientation = East ->
            IF laser.cell_index = 24 THEN NoPosition ELSE laser.cell_index + 1
      [] laser.orientation = South ->
            IF laser.cell_index <= 4 THEN NoPosition ELSE laser.cell_index - 5
      [] laser.orientation = West ->
            IF laser.cell_index = 0 THEN NoPosition ELSE laser.cell_index - 1

next_position(laser) ==
    CASE laser.orientation = North ->
            IF laser.cell_index >= 20 THEN NoPosition ELSE laser.cell_index + 5
      [] laser.orientation = East ->
            IF laser.cell_index % 5 = 4 THEN NoPosition ELSE laser.cell_index + 1
      [] laser.orientation = South ->
            IF laser.cell_index <= 4 THEN NoPosition ELSE laser.cell_index - 5
      [] laser.orientation = West ->
            IF laser.cell_index % 5 = 0 THEN NoPosition ELSE laser.cell_index - 1

(***************************************************************************)
(* SolverNode2: the data of one node of the search                         *)
(***************************************************************************)
EmptyCells == [i \in Cells |-> NoToken]

SolverNode_new(grid, bag, n_targets) ==
    [cells |-> grid,
     tokens_to_be_added |-> bag,
     tokens_to_be_added_shuffled |-> <<>>,
     targets |-> n_targets]

\* a reset_tokens that leaves the tokens as the simulation left them
reset_tokens_skipped(node) == node

reset_tokens(node) ==
    [node EXCEPT !.cells = [i \in Cells |->
        IF node.cells[i] = NoToken THEN NoToken ELSE reset(node.cells[i])]]

(***************************************************************************)
(* Checker: the beam simulator                                             *)
(***************************************************************************)
NoVisits == [i \in Cells |-> [d \in 0 .. 3 |-> FALSE]]

\* panicked models a panic! / failed expect inside the simulation
Checker_from_solver_node(solver_node) ==
    [grid |-> solver_node,
     active_lasers |-> <<NoLaser, NoLaser, NoLaser, NoLaser>>,
     laser_visited |-> NoVisits,
     unoriented_occupied_cells |-> <<>>,
     all_lasers_remain_on_board |-> TRUE,
     panicked |-> FALSE]

has_active_lasers(c) == \E k \in 1 .. 4 : c.active_lasers[k] # NoLaser

LaserCellsOf(cells) == {i \in Cells : cells[i].type_ = "Laser"}

Min(S) == CHOOSE x \in S : \A y \in S : x <= y

\* Find the laser piece and initialize the active laser there
initialize(c) ==
    IF LaserCellsOf(c.grid.cells) = {} THEN c
    ELSE LET i == Min(LaserCellsOf(c.grid.cells))
             token == c.grid.cells[i]
         IN  IF token.orientation = NoOrientation
             THEN [c EXCEPT !.panicked = TRUE]
             ELSE [c EXCEPT !.laser_visited[i][to_index(token.orientation)] = TRUE,
                            !.active_lasers[1] = ActiveLaser(i, token.orientation)]

\* a simulator that never drops a beam it has already traced
AlreadyVisited_never(c, cell, o) == FALSE

\* a visited test that looks at the direction the beam came from
AlreadyVisited_inbound_direction(c, cell, o) ==
    c.laser_visited[cell][(to_index(o) + 2) % 4]

\* the visited test of the code: an outbound beam already traced is dropped
AlreadyVisited(c, cell, o) == c.laser_visited[cell][to_index(o)]

\* a simulator with room for three beams only
SlotsExhausted_after_three(new_laser_index) == new_laser_index > 2

\* the test before a slot of new_lasers is written: panic!("laser index > 3!")
SlotsExhausted(new_laser_index) == new_laser_index > 3

\* one result of a token interaction; s = [c, new_lasers, new_laser_index]
HandleInteractionResult(s, next_laser_position, res) ==
    IF s.c.panicked THEN s
    ELSE IF res.kind = "OutboundLaser"
    THEN IF AlreadyVisited(s.c, next_laser_position, res.orientation)
         THEN s
         ELSE LET s1 == [s EXCEPT !.c.laser_visited[next_laser_position]
                                       [to_index(res.orientation)] = TRUE]
                  new_active_laser == ActiveLaser(next_laser_position, res.orientation)
              IN  IF SlotsExhausted(s1.new_laser_index)
                  THEN [s1 EXCEPT !.c.panicked = TRUE]
                  ELSE IF \E k \in 1 .. 4 : s1.new_lasers[k] = new_active_laser
                  THEN s1
                  ELSE [s1 EXCEPT !.new_lasers[s1.new_laser_index + 1] = new_active_laser,
                                  !.new_laser_index = @ + 1]
    ELSE IF res.valid
    THEN s
    ELSE [s EXCEPT !.c.all_lasers_remain_on_board = FALSE]

\* a loop body that takes a token without orientation for the end of the beam
StepActiveLaser_unoriented_ends_beam(s, laser) ==
    IF s.c.panicked THEN s
    ELSE LET next_laser_position == next_position(laser) IN
    IF next_laser_position = NoPosition
    THEN [s EXCEPT !.c.all_lasers_remain_on_board = FALSE]
    ELSE LET token == s.c.grid.cells[next_laser_position] IN
    IF token # NoToken
    THEN IF token.orientation = NoOrientation
         THEN [s EXCEPT !.new_laser_index = @ + 1,
                        !.c.all_lasers_remain_on_board = FALSE,
                        !.c.unoriented_occupied_cells = Append(@, next_laser_position)]
         ELSE LET r == outbound_lasers_given_inbound_laser_direction(
                           token, laser.orientation)
                  s1 == [s EXCEPT !.c.grid.cells[next_laser_position] = r.token]
              IN  HandleInteractionResult(
                      HandleInteractionResult(s1, next_laser_position, r.results[1]),
                      next_laser_position, r.results[2])
    ELSE LET s1 == [s EXCEPT !.c.laser_visited[next_laser_position]
                                  [to_index(laser.orientation)] = TRUE]
         IN  IF SlotsExhausted(s1.new_laser_index)
             THEN [s1 EXCEPT !.c.panicked = TRUE]
             ELSE [s1 EXCEPT !.new_lasers[s1.new_laser_index + 1] =
                                 ActiveLaser(next_laser_position, laser.orientation),
                             !.new_laser_index = @ + 1]

\* the body of the inner for loop, for one active laser
StepActiveLaser(s, laser) ==
    IF s.c.panicked THEN s
    ELSE LET next_laser_position == next_position(laser) IN
    IF next_laser_position = NoPosition
    THEN [s EXCEPT !.c.all_lasers_remain_on_board = FALSE]
    ELSE LET token == s.c.grid.cells[next_laser_position] IN
    IF token # NoToken
    THEN IF token.orientation = NoOrientation
         THEN [s EXCEPT !.new_laser_index = @ + 1,
                        !.c.unoriented_occupied_cells = Append(@, next_laser_position)]
         ELSE LET r == outbound_lasers_given_inbound_laser_direction(
                           token, laser.orientation)
                  s1 == [s EXCEPT !.c.grid.cells[next_laser_position] = r.token]
              IN  HandleInteractionResult(
                      HandleInteractionResult(s1, next_laser_position, r.results[1]),
                      next_laser_position, r.results[2])
    ELSE LET s1 == [s EXCEPT !.c.laser_visited[next_laser_position]
                                  [to_index(laser.orientation)] = TRUE]
         IN  IF SlotsExhausted(s1.new_laser_index)
             THEN [s1 EXCEPT !.c.panicked = TRUE]
             ELSE [s1 EXCEPT !.new_lasers[s1.new_laser_index + 1] =
                                 ActiveLaser(next_laser_position, laser.orientation),
                             !.new_laser_index = @ + 1]

RECURSIVE StepActiveLasers(_, _, _)
StepActiveLasers(s, lasers, k) ==
    IF k > 4 THEN s
    ELSE IF lasers[k] = NoLaser THEN StepActiveLasers(s, lasers, k + 1)
    ELSE StepActiveLasers(StepActiveLaser(s, lasers[k]), lasers, k + 1)

\* the loop state at the end of one iteration of the outer while loop
OuterIterationState(c) ==
    StepActiveLasers([c |-> c,
                      new_lasers |-> <<NoLaser, NoLaser, NoLaser, NoLaser>>,
                      new_laser_index |-> 0],
                     c.active_lasers, 1)

\* one iteration of the outer while loop of check()
CheckIteration(c) ==
    LET s == OuterIterationState(c)
    IN  IF s.c.panicked THEN s.c
        ELSE [s.c EXCEPT !.active_lasers = s.new_lasers]

RECURSIVE CheckLoop(_)
CheckLoop(c) ==
    IF c.panicked \/ ~has_active_lasers(c) THEN c
    ELSE CheckLoop(CheckIteration(c))

check(c) == CheckLoop(initialize(c))

\* a test that looks at tokens_to_be_added only
remaining_tokens_to_be_added_unshuffled(c) ==
    c.grid.tokens_to_be_added # <<>>

remaining_tokens_to_be_added(c) ==
    (c.grid.tokens_to_be_added # <<>>) \/ (c.grid.tokens_to_be_added_shuffled # <<>>)

count_lit_targets(c) ==
    Cardinality({i \in Cells : c.grid.cells[i].target_lit = "Some(true)"})

\* the expect fails (panic) on a must_light token whose target_lit is None
all_required_targets_lit(c) ==
    \A i \in Cells :
        (c.grid.cells[i] # NoToken /\ c.grid.cells[i].must_light)
            => c.grid.cells[i].target_lit = "Some(true)"

all_tokens_lit(c) ==
    \A i \in Cells : c.grid.cells[i] # NoToken => c.grid.cells[i].lit

\* a test that accepts more lit targets than the puzzle asks for
solved_at_least(c) ==
    /\ c.grid.targets <= count_lit_targets(c)
    /\ all_required_targets_lit(c)
    /\ all_tokens_lit(c)
    /\ c.all_lasers_remain_on_board
    /\ ~remaining_tokens_to_be_added(c)

\* a test that does not look at all_lasers_remain_on_board
solved_without_board_flag(c) ==
    /\ c.grid.targets = count_lit_targets(c)
    /\ all_required_targets_lit(c)
    /\ all_tokens_lit(c)
    /\ ~remaining_tokens_to_be_added(c)

solved(c) ==
    /\ c.grid.targets = count_lit_targets(c)
    /\ all_required_targets_lit(c)
    /\ all_tokens_lit(c)
    /\ c.all_lasers_remain_on_board
    /\ ~remaining_tokens_to_be_added(c)

\* the cells the laser has visited, with a token or without
cells_with_active_laser(c) ==
    {idx \in Cells : \E d \in 0 .. 3 : c.laser_visited[idx][d]}

empty_cells_with_active_laser(c) ==
    {idx \in Cells : /\ c.grid.cells[idx] = NoToken
                     /\ \E d \in 0 .. 3 : c.laser_visited[idx][d]}

(***************************************************************************)
(* SolverNode2: the branch generator                                       *)
(***************************************************************************)
SPIRAL_ORDER == <<0, 1, 2, 3, 4, 9, 14, 19, 24, 23, 22, 21, 20, 15, 10, 5,
                  6, 7, 8, 13, 18, 17, 16, 11, 12>>

\* the order Checker::generate_branches_after_check walks the cells in
SPIRAL_ORDER_REVERSE == [k \in 1 .. NumCells |-> SPIRAL_ORDER[NumCells + 1 - k]]

NORTH_EDGE_CELL_INDICES == {21, 22, 23}
EAST_EDGE_CELL_INDICES == {9, 14, 19}
SOUTH_EDGE_CELL_INDICES == {1, 2, 3}
WEST_EDGE_CELL_INDICES == {5, 10, 15}

\* the panic!("Logical error in is_edge_cell()") arm
PanicOrientation == 5
ForbiddenPanic == <<PanicOrientation, PanicOrientation>>

\* neighboring_cell_indices that knows the corner blockers only
neighboring_cell_indices_corners_only(cell_blocker_index) ==
    CASE cell_blocker_index = 0  -> {1, 5}
      [] cell_blocker_index = 4  -> {3, 9}
      [] cell_blocker_index = 20 -> {15, 21}
      [] cell_blocker_index = 24 -> {23, 19}
      [] OTHER -> {}

\* the cells next to an edge cell blocker that the blocker constrains
neighboring_cell_indices(cell_blocker_index) ==
    CASE cell_blocker_index = 0  -> {1, 5}
      [] cell_blocker_index = 4  -> {3, 9}
      [] cell_blocker_index = 20 -> {15, 21}
      [] cell_blocker_index = 24 -> {23, 19}
      [] cell_blocker_index = 1  -> {6}
      [] cell_blocker_index = 2  -> {7}
      [] cell_blocker_index = 3  -> {8}
      [] cell_blocker_index = 9  -> {8}
      [] cell_blocker_index = 14 -> {13}
      [] cell_blocker_index = 19 -> {18}
      [] cell_blocker_index = 23 -> {18}
      [] cell_blocker_index = 22 -> {17}
      [] cell_blocker_index = 21 -> {16}
      [] cell_blocker_index = 15 -> {16}
      [] cell_blocker_index = 10 -> {11}
      [] cell_blocker_index = 5  -> {6}
      [] OTHER -> {}

\* a table that has the south edge for the north edge and back
forbidden_orientations_by_edge_swapped(cell_index) ==
    CASE cell_index = 0  -> <<South, West>>
      [] cell_index = 4  -> <<South, East>>
      [] cell_index = 20 -> <<North, West>>
      [] cell_index = 24 -> <<North, East>>
      [] cell_index \in NORTH_EDGE_CELL_INDICES -> <<South, NoOrientation>>
      [] cell_index \in EAST_EDGE_CELL_INDICES  -> <<East, NoOrientation>>
      [] cell_index \in SOUTH_EDGE_CELL_INDICES -> <<North, NoOrientation>>
      [] cell_index \in WEST_EDGE_CELL_INDICES  -> <<West, NoOrientation>>
      [] OTHER -> <<NoOrientation, NoOrientation>>

\* the result when no cell blocker constrains the cell
forbidden_orientations_by_edge(cell_index) ==
    CASE cell_index = 0  -> <<South, West>>
      [] cell_index = 4  -> <<South, East>>
      [] cell_index = 20 -> <<North, West>>
      [] cell_index = 24 -> <<North, East>>
      [] cell_index \in NORTH_EDGE_CELL_INDICES -> <<North, NoOrientation>>
      [] cell_index \in EAST_EDGE_CELL_INDICES  -> <<East, NoOrientation>>
      [] cell_index \in SOUTH_EDGE_CELL_INDICES -> <<South, NoOrientation>>
      [] cell_index \in WEST_EDGE_CELL_INDICES  -> <<West, NoOrientation>>
      [] OTHER -> <<NoOrientation, NoOrientation>>

\* returns the array [Option<Orientation>; 2] of the out-of-board orientations
forbidden_orientations(cells, cell_index) ==
    LET blockers == {i \in Cells : cells[i].type_ = "CellBlocker"} IN
    IF cell_index = 12 THEN <<NoOrientation, NoOrientation>>
    ELSE IF blockers # {} /\ cell_index \in neighboring_cell_indices(Min(blockers))
    THEN LET cell_blocker_index == Min(blockers) IN
         CASE cell_blocker_index \in NORTH_EDGE_CELL_INDICES -> <<North, NoOrientation>>
           [] cell_blocker_index \in EAST_EDGE_CELL_INDICES  -> <<East, NoOrientation>>
           [] cell_blocker_index \in SOUTH_EDGE_CELL_INDICES -> <<South, NoOrientation>>
           [] cell_blocker_index \in WEST_EDGE_CELL_INDICES  -> <<West, NoOrientation>>
           [] OTHER ->
                CASE cell_index = 1  -> <<South, West>>
                  [] cell_index = 3  -> <<South, East>>
                  [] cell_index = 9  -> <<South, East>>
                  [] cell_index = 19 -> <<North, East>>
                  [] cell_index = 23 -> <<North, East>>
                  [] cell_index = 21 -> <<North, West>>
                  [] cell_index = 15 -> <<North, West>>
                  [] cell_index = 5  -> <<South, West>>
                  [] OTHER -> ForbiddenPanic
    ELSE forbidden_orientations_by_edge(cell_index)

SeqRange(q) == {q[k] : k \in 1 .. Len(q)}

\* result.retain(|x| !forbidden.contains(x))
Retain(q, forbidden) == SelectSeq(q, LAMBDA x : x \notin forbidden)

target_mirror_orientation_iter(cells, forbidden_directions, cell_index) ==
    IF cells[cell_index].must_light
    THEN Retain(<<0, 1, 2, 3>>, forbidden_directions)
    ELSE <<0, 1, 2, 3>>

\* orientation_iter that retains every index of the range
orientation_iter_unpruned(cells, token_type, cell_index) == orientation_range(token_type)

\* for generating rotation branches, which rotations are valid?
orientation_iter(cells, token_type, cell_index) ==
    LET range == orientation_range(token_type) IN
    IF token_type \in {"BeamSplitter", "DoubleMirror", "CellBlocker"}
    THEN range
    ELSE LET forbidden_directions ==
                 {to_index(o) : o \in SeqRange(forbidden_orientations(cells, cell_index))
                                       \ {NoOrientation}}
         IN  CASE token_type = "Laser" -> Retain(range, forbidden_directions)
               [] token_type = "Checkpoint" ->
                      Retain(range, {IF idx > 1 THEN idx - 2 ELSE idx :
                                         idx \in forbidden_directions})
               [] token_type = "TargetMirror" ->
                      target_mirror_orientation_iter(cells, forbidden_directions,
                                                     cell_index)
               [] OTHER -> range

generate_orientation_branches_at_cell(node, cell_index) ==
    IF node.cells[cell_index] # NoToken
    THEN LET it == orientation_iter(node.cells, node.cells[cell_index].type_, cell_index)
         IN  [k \in 1 .. Len(it) |->
                 [node EXCEPT !.cells[cell_index].orientation = from_index(it[k])]]
    ELSE <<>>

laser_placed(node) == \E i \in Cells : node.cells[i].type_ = "Laser"

\* a test that is satisfied with a laser on the board
laser_placed_and_rotated_placed_only(node) ==
    \E i \in Cells : node.cells[i].type_ = "Laser"

laser_placed_and_rotated(node) ==
    \E i \in Cells : /\ node.cells[i].type_ = "Laser"
                     /\ node.cells[i].orientation # NoOrientation

laser_position(node) == Min(LaserCellsOf(node.cells))

all_placed_tokens_have_orientation_set(node) ==
    \A i \in Cells : node.cells[i] # NoToken => node.cells[i].orientation # NoOrientation

RECURSIVE Concat(_)
Concat(qs) == IF qs = <<>> THEN <<>> ELSE Head(qs) \o Concat(Tail(qs))

\* generate_laser_placement_branches that tries the occupied cells as well
generate_laser_placement_branches_any_cell(node) ==
    IF laser_placed_and_rotated(node) THEN <<>>
    ELSE IF laser_placed(node)
    THEN generate_orientation_branches_at_cell(node, laser_position(node))
    ELSE LET self == [node EXCEPT !.tokens_to_be_added =
                         SelectSeq(@, LAMBDA token : token.type_ # "Laser")]
             laser == Token_new("Laser", NoOrientation, FALSE)
         IN  Concat([k \in 1 .. NumCells |->
                 generate_orientation_branches_at_cell(
                     [self EXCEPT !.cells[SPIRAL_ORDER[k]] = laser], SPIRAL_ORDER[k])])

\* generate_laser_placement_branches without the retain() on the bag
generate_laser_placement_branches_keeping_laser(node) ==
    IF laser_placed_and_rotated(node) THEN <<>>
    ELSE IF laser_placed(node)
    THEN generate_orientation_branches_at_cell(node, laser_position(node))
    ELSE LET laser == Token_new("Laser", NoOrientation, FALSE)
         IN  Concat([k \in 1 .. NumCells |->
                 LET i == SPIRAL_ORDER[k] IN
                 IF node.cells[i] = NoToken
                 THEN generate_orientation_branches_at_cell(
                          [node EXCEPT !.cells[i] = laser], i)
                 ELSE <<>>])

generate_laser_placement_branches(node) ==
    IF laser_placed_and_rotated(node) THEN <<>>
    ELSE IF laser_placed(node)
    THEN generate_orientation_branches_at_cell(node, laser_position(node))
    ELSE LET self == [node EXCEPT !.tokens_to_be_added =
                         SelectSeq(@, LAMBDA token : token.type_ # "Laser")]
             laser == Token_new("Laser", NoOrientation, FALSE)
         IN  Concat([k \in 1 .. NumCells |->
                 LET i == SPIRAL_ORDER[k] IN
                 IF self.cells[i] = NoToken
                 THEN generate_orientation_branches_at_cell(
                          [self EXCEPT !.cells[i] = laser], i)
                 ELSE <<>>])

count_tokens_to_be_added_by_type(node, type_) ==
    Len(SelectSeq(node.tokens_to_be_added, LAMBDA token : token.type_ = type_))

\* a count that takes no token of the bag for a must-light one
count_must_light_tokens_to_be_added_none(node) == 0

count_must_light_tokens_to_be_added(node) ==
    Len(SelectSeq(node.tokens_to_be_added, LAMBDA token : token.must_light))

\* recursively build the list of the unique orderings; n = the five counters
RECURSIVE backtrack(_, _)
backtrack(n, current_ordering) ==
    IF \A k \in 1 .. 5 : n[k] = 0
    THEN <<current_ordering>>
    ELSE LET piece(k) ==
                 CASE k = 1 -> Token_new("TargetMirror", NoOrientation, TRUE)
                   [] k = 2 -> Token_new("TargetMirror", NoOrientation, FALSE)
                   [] k = 3 -> Token_new("Checkpoint", NoOrientation, FALSE)
                   [] k = 4 -> Token_new("DoubleMirror", NoOrientation, FALSE)
                   [] k = 5 -> Token_new("BeamSplitter", NoOrientation, FALSE)
             branch(k) ==
                 IF n[k] > 0
                 THEN backtrack([n EXCEPT ![k] = @ - 1],
                                Append(current_ordering, piece(k)))
                 ELSE <<>>
         IN  branch(1) \o branch(2) \o branch(3) \o branch(4) \o branch(5)

\* a generator that keeps the one ordering the bag is in
generate_shuffled_tokens_to_be_added_branches_in_bag_order(node) ==
    <<[node EXCEPT !.tokens_to_be_added = <<>>,
                   !.tokens_to_be_added_shuffled = node.tokens_to_be_added]>>

generate_shuffled_tokens_to_be_added_branches(node) ==
    LET n_target_mirrors_must_light == count_must_light_tokens_to_be_added(node)
        n_target_mirrors_may_not_light ==
            count_tokens_to_be_added_by_type(node, "TargetMirror")
                - n_target_mirrors_must_light
        unique_orderings ==
            backtrack(<<n_target_mirrors_must_light,
                        n_target_mirrors_may_not_light,
                        count_tokens_to_be_added_by_type(node, "Checkpoint"),
                        count_tokens_to_be_added_by_type(node, "DoubleMirror"),
                        count_tokens_to_be_added_by_type(node, "BeamSplitter")>>, <<>>)
    IN  [k \in 1 .. Len(unique_orderings) |->
            [node EXCEPT !.tokens_to_be_added = <<>>,
                         !.tokens_to_be_added_shuffled = unique_orderings[k]]]

(***************************************************************************)
(* Checker: branching after the simulation                                 *)
(***************************************************************************)
\* c.grid has been reset by the caller
\* a generator whose children keep the placed token in tokens_to_be_added_shuffled
generate_branches_after_check_keeping_token(c) ==
    IF c.unoriented_occupied_cells # <<>>
    THEN Concat([k \in 1 .. Len(c.unoriented_occupied_cells) |->
             generate_orientation_branches_at_cell(c.grid,
                                                   c.unoriented_occupied_cells[k])])
    ELSE IF c.grid.tokens_to_be_added_shuffled # <<>>
    THEN LET q == c.grid.tokens_to_be_added_shuffled
             token == q[Len(q)]
             visited == empty_cells_with_active_laser(c)
             order == SelectSeq(SPIRAL_ORDER_REVERSE, LAMBDA i : i \in visited)
         IN  [k \in 1 .. Len(order) |-> [c.grid EXCEPT !.cells[order[k]] = token]]
    ELSE <<>>

generate_branches_after_check(c) ==
    IF c.unoriented_occupied_cells # <<>>
    THEN Concat([k \in 1 .. Len(c.unoriented_occupied_cells) |->
             generate_orientation_branches_at_cell(c.grid,
                                                   c.unoriented_occupied_cells[k])])
    ELSE IF c.grid.tokens_to_be_added_shuffled # <<>>
    THEN LET q == c.grid.tokens_to_be_added_shuffled
             token == q[Len(q)]
             grid == [c.grid EXCEPT !.tokens_to_be_added_shuffled =
                                        SubSeq(q, 1, Len(q) - 1)]
             visited == empty_cells_with_active_laser(c)
             order == SelectSeq(SPIRAL_ORDER_REVERSE, LAMBDA i : i \in visited)
         IN  [k \in 1 .. Len(order) |-> [grid EXCEPT !.cells[order[k]] = token]]
    ELSE <<>>

Ok(cells) == [kind |-> "Ok", cells |-> cells, nodes |-> <<>>]
Err(nodes) == [kind |-> "Err", cells |-> EmptyCells, nodes |-> nodes]
Panicked == [kind |-> "Panic", cells |-> EmptyCells, nodes |-> <<>>]

\* a generator that accepts a board lighting at least `targets' targets
Checker_generate_branches_at_least(c0) ==
    LET c == check(c0) IN
    IF c.panicked THEN Panicked
    ELSE IF /\ c.grid.targets <= count_lit_targets(c)
            /\ all_required_targets_lit(c)
            /\ all_tokens_lit(c)
            /\ c.all_lasers_remain_on_board
            /\ ~remaining_tokens_to_be_added(c)
    THEN Ok(reset_tokens(c.grid).cells)
    ELSE Err(generate_branches_after_check([c EXCEPT !.grid = reset_tokens(c.grid)]))

\* a solved board handed back as the simulation left it
Checker_generate_branches_without_reset(c0) ==
    LET c == check(c0) IN
    IF c.panicked THEN Panicked
    ELSE IF solved(c)
    THEN Ok(c.grid.cells)
    ELSE Err(generate_branches_after_check([c EXCEPT !.grid = reset_tokens(c.grid)]))

Checker_generate_branches(c0) ==
    LET c == check(c0) IN
    IF c.panicked THEN Panicked
    ELSE IF solved(c)
    THEN Ok(reset_tokens(c.grid).cells)
    ELSE Err(generate_branches_after_check([c EXCEPT !.grid = reset_tokens(c.grid)]))

\* SolverNode2::generate_branches: Ok(cells) on the solution, Err(new_nodes) otherwise
generate_branches(node) ==
    IF ~laser_placed_and_rotated(node)
    THEN Err(generate_laser_placement_branches(node))
    ELSE IF node.tokens_to_be_added # <<>>
    THEN Err(generate_shuffled_tokens_to_be_added_branches(node))
    ELSE LET c == check(Checker_from_solver_node(node)) IN
         IF c.panicked THEN Panicked ELSE Checker_generate_branches(c)

(***************************************************************************)
(* LaserMazeSolver: validation                                             *)
(***************************************************************************)
BoardTokens(grid) == {i \in Cells : grid[i] # NoToken}

\* number of tokens of a type, on the grid plus to be added
token_count(grid, bag, type_) ==
    Cardinality({i \in Cells : grid[i].type_ = type_})
        + Len(SelectSeq(bag, LAMBDA token : token.type_ = type_))

min_count(type_) ==
    CASE type_ = "Laser" -> 1
      [] type_ = "TargetMirror" -> 1
      [] OTHER -> 0

\* a table that allows a single beam splitter
max_count_single_beam_splitter(type_) ==
    CASE type_ = "TargetMirror" -> 5
      [] OTHER -> 1

max_count(type_) ==
    CASE type_ = "Laser" -> 1
      [] type_ = "TargetMirror" -> 5
      [] type_ = "BeamSplitter" -> 2
      [] OTHER -> 1

piece_count_error(type_) == "Invalid piece count for piece type " \o type_ \o "!"

\* the token types whose count is out of range
InvalidCountTypes(grid, bag) ==
    {type_ \in SeqRange(TOKEN_TYPES) :
        \/ token_count(grid, bag, type_) < min_count(type_)
        \/ token_count(grid, bag, type_) > max_count(type_)}

\* must_light_count sums over initial_grid_config only
must_light_count(grid) == Cardinality({i \in Cells : grid[i] # NoToken /\ grid[i].must_light})

\* a validation that checks the piece counts before the target count
validate_counts_first(grid, bag, n_targets) ==
    IF InvalidCountTypes(grid, bag) # {}
    THEN {piece_count_error(type_) : type_ \in InvalidCountTypes(grid, bag)}
    ELSE IF (n_targets = 0) \/ (n_targets > 3)
    THEN {"Invalid number of targets!"}
    ELSE IF n_targets < must_light_count(grid)
    THEN {"Invalid number of pieces which must be lit!"}
    ELSE IF \E k \in 1 .. Len(bag) : bag[k].type_ = "CellBlocker"
    THEN {"Cell Blocker included in tokens_to_be_added!"}
    ELSE {"Ok"}

\* a validation without the rule on the bag's cell blockers
validate_without_cell_blocker_rule(grid, bag, n_targets) ==
    IF (n_targets = 0) \/ (n_targets > 3)
    THEN {"Invalid number of targets!"}
    ELSE IF InvalidCountTypes(grid, bag) # {}
    THEN {piece_count_error(type_) : type_ \in InvalidCountTypes(grid, bag)}
    ELSE IF n_targets < must_light_count(grid)
    THEN {"Invalid number of pieces which must be lit!"}
    ELSE {"Ok"}

\* The results validate() can return: "Ok" or an error message.  The counts
\* are checked in the iteration order of a HashMap, which is unspecified, so
\* with several types out of range any of them can be the one reported.
validate(grid, bag, n_targets) ==
    IF (n_targets = 0) \/ (n_targets > 3)
    THEN {"Invalid number of targets!"}
    ELSE IF InvalidCountTypes(grid, bag) # {}
    THEN {piece_count_error(type_) : type_ \in InvalidCountTypes(grid, bag)}
    ELSE IF n_targets < must_light_count(grid)
    THEN {"Invalid number of pieces which must be lit!"}
    ELSE IF \E k \in 1 .. Len(bag) : bag[k].type_ = "CellBlocker"
    THEN {"Cell Blocker included in tokens_to_be_added!"}
    ELSE {"Ok"}

(***************************************************************************)
(* LaserMazeSolver: solve()                                                *)
(***************************************************************************)
\* no search of the puzzles below pops this many nodes
MaxExpanded == 1700

Running(kind) == [kind |-> kind, cells |-> EmptyCells, msg |-> ""]

\* self.validate()? returns the error
SolveValidateErr ==
    /\ result.kind = "NotStarted"
    /\ \E e \in validate(initial_grid_config, tokens_to_be_added, targets) :
          /\ e # "Ok"
          /\ result' = [kind |-> "Err", cells |-> EmptyCells, msg |-> e]
    /\ UNCHANGED <<initial_grid_config, tokens_to_be_added, targets, stack, expanded,
                   checkerVars, tokenVars, parVars>>

SolveValidateOk ==
    /\ result.kind = "NotStarted"
    /\ "Ok" \in validate(initial_grid_config, tokens_to_be_added, targets)
    /\ result' = Running("Searching")
    /\ UNCHANGED <<initial_grid_config, tokens_to_be_added, targets, stack, expanded,
                   checkerVars, tokenVars, parVars>>

\* the loop with the stack used as a queue: the oldest node is taken
SolveLoopIteration_oldest_first ==
    /\ result.kind = "Searching"
    /\ stack # <<>>
    /\ expanded < MaxExpanded
    /\ LET node == Head(stack)
           rest == Tail(stack)
           r == generate_branches(node)
       IN  /\ stack' = IF r.kind = "Err" THEN rest \o r.nodes ELSE rest
           /\ result' = CASE r.kind = "Ok" -> [kind |-> "OkSome", cells |-> r.cells,
                                               msg |-> ""]
                          [] r.kind = "Panic" -> Running("Panic")
                          [] OTHER -> result
    /\ expanded' = expanded + 1
    /\ UNCHANGED <<initial_grid_config, tokens_to_be_added, targets, checkerVars, tokenVars, parVars>>

\* one iteration of the while loop: pop a node and generate its branches
SolveLoopIteration ==
    /\ result.kind = "Searching"
    /\ stack # <<>>
    /\ expanded < MaxExpanded
    /\ LET node == stack[Len(stack)]
           rest == SubSeq(stack, 1, Len(stack) - 1)
           r == generate_branches(node)
       IN  /\ stack' = IF r.kind = "Err" THEN rest \o r.nodes ELSE rest
           /\ result' = CASE r.kind = "Ok" -> [kind |-> "OkSome", cells |-> r.cells,
                                               msg |-> ""]
                          [] r.kind = "Panic" -> Running("Panic")
                          [] OTHER -> result
    /\ expanded' = expanded + 1
    /\ UNCHANGED <<initial_grid_config, tokens_to_be_added, targets, checkerVars, tokenVars, parVars>>

\* the stack is empty: Ok(None)
SolveExhausted ==
    /\ result.kind = "Searching"
    /\ stack = <<>>
    /\ result' = Running("OkNone")
    /\ UNCHANGED <<initial_grid_config, tokens_to_be_added, targets, stack, expanded,
                   checkerVars, tokenVars, parVars>>

(***************************************************************************)
(* Checker::check(), one iteration of the outer loop at a time             *)
(***************************************************************************)
\* the cap on the iteration counter; the claimed bound is 100
MaxOuterIterations == 101

CheckerInitialize ==
    /\ checker_pc = "created"
    /\ checker' = initialize(checker)
    /\ checker_pc' = "running"
    /\ UNCHANGED <<solverVars, tokenVars, parVars, outer_iterations>>

CheckerOuterIteration ==
    /\ checker_pc = "running"
    /\ ~checker.panicked
    /\ has_active_lasers(checker)
    /\ outer_iterations < MaxOuterIterations
    /\ checker' = CheckIteration(checker)
    /\ outer_iterations' = outer_iterations + 1
    /\ UNCHANGED <<solverVars, tokenVars, parVars, checker_pc>>

\* the while condition is false (or the simulation panicked): check() returns
CheckerReturn ==
    /\ checker_pc = "running"
    /\ checker.panicked \/ ~has_active_lasers(checker)
    /\ checker_pc' = "done"
    /\ UNCHANGED <<solverVars, tokenVars, parVars, checker, outer_iterations>>

(***************************************************************************)
(* main.rs: GameBoard, the simulator of the multi-threaded variant         *)
(***************************************************************************)
\* Option<GamePiece>::None
NoPiece == [type_ |-> "None", orientation |-> NoOrientation, lit |-> FALSE,
            target_lit |-> FALSE, must_light |-> FALSE]

\* a piece as its new() makes it: lit and target_lit false
GamePiece_new(type_, orientation) ==
    [type_ |-> type_, orientation |-> orientation, lit |-> FALSE,
     target_lit |-> FALSE, must_light |-> FALSE]

\* u8 arithmetic
U8_MODULUS == 256

overflowing_sub(a, b) == (a - b + U8_MODULUS) % U8_MODULUS

position_from_index(position_index) ==
    <<position_index % 5, position_index \div 5>>

\* NoPosition when the coordinates are out of the board
index_from_position(position_coordinates) ==
    IF (position_coordinates[1] > 4) \/ (position_coordinates[2] > 4)
    THEN NoPosition
    ELSE position_coordinates[1] + position_coordinates[2] * 5

neighboring_slot_from_orientation(position, neighboring_direction) ==
    index_from_position(
        CASE neighboring_direction = North -> <<position[1], position[2] + 1>>
          [] neighboring_direction = East  -> <<position[1] + 1, position[2]>>
          [] neighboring_direction = South ->
                 <<position[1], overflowing_sub(position[2], 1)>>
          [] neighboring_direction = West  ->
                 <<overflowing_sub(position[1], 1), position[2]>>)

NoLaserPosition == [position |-> <<5, 5>>, orientation |-> NoOrientation]

LaserPosition_new(position_index, orientation) ==
    [position |-> position_from_index(position_index), orientation |-> orientation]

\* pieces.rs: the piece after the interaction and the two Option<Orientation>
piece_reference_outbound_lasers(piece, d) ==
    CASE piece.type_ = "Laser" ->
            [piece |-> piece, out |-> <<North, NoOrientation>>]
      [] piece.type_ = "Gate" ->
            [piece |-> [piece EXCEPT !.lit = TRUE],
             out |-> IF d = North \/ d = South THEN <<d, NoOrientation>>
                     ELSE <<NoOrientation, NoOrientation>>]
      [] piece.type_ = "SingleMirror" ->
            [piece |-> [piece EXCEPT !.lit = TRUE,
                                     !.target_lit = IF d = South THEN TRUE ELSE @],
             out |-> CASE d = North -> <<West, NoOrientation>>
                       [] d = East  -> <<South, NoOrientation>>
                       [] OTHER     -> <<NoOrientation, NoOrientation>>]
      [] piece.type_ = "DoubleMirror" ->
            [piece |-> [piece EXCEPT !.lit = TRUE],
             out |-> <<DoubleMirrorReflection(d), NoOrientation>>]
      [] piece.type_ = "Block" ->
            [piece |-> piece, out |-> <<d, NoOrientation>>]
      [] piece.type_ = "SplittingMirror" ->
            [piece |-> [piece EXCEPT !.lit = TRUE],
             out |-> <<DoubleMirrorReflection(d), d>>]

\* pieces.rs: GamePiece::outbound_lasers_given_inbound_laser_direction
piece_outbound_lasers(piece, laser_inbound_orientation) ==
    LET ref == piece_reference_outbound_lasers(
                   piece, reorient_inbound_laser(piece.orientation,
                                                 laser_inbound_orientation))
        back(o) == IF o = NoOrientation THEN NoOrientation
                   ELSE reorient_outbound_laser(piece.orientation, o)
    IN  [piece |-> ref.piece, out |-> <<back(ref.out[1]), back(ref.out[2])>>]

\* GameBoard::new with the pieces of a node
GameBoard_new(pieces, n_targets) ==
    [pieces |-> pieces,
     active_laser_directions |-> NoVisits,
     laser_positions |-> <<NoLaserPosition, NoLaserPosition, NoLaserPosition>>,
     targets |-> n_targets,
     turns |-> 0,
     valid_solution |-> "None",
     panicked |-> FALSE]

\* GameBoard::check_setup: [ok, b], b with the laser started
GameBoard_check_setup(b) ==
    LET lasers == {i \in Cells : b.pieces[i].type_ = "Laser"} IN
    IF b.turns > 0 THEN [ok |-> FALSE, b |-> b]
    ELSE IF \E i \in Cells : b.pieces[i] # NoPiece /\ b.pieces[i].orientation = NoOrientation
    THEN [ok |-> FALSE, b |-> b]
    ELSE IF Cardinality(lasers) # 1
    THEN [ok |-> FALSE, b |-> b]
    ELSE LET i == CHOOSE i \in lasers : TRUE IN
         [ok |-> TRUE,
          b |-> [b EXCEPT !.active_laser_directions[i][to_index(b.pieces[i].orientation)]
                              = TRUE,
                          !.laser_positions[1]
                              = LaserPosition_new(i, b.pieces[i].orientation)]]

\* the closure of calculate_new_laser_positions on one laser position:
\* s = [b, new_lasers]
march_laser_position(s, lp) ==
    LET none == <<NoLaserPosition, NoLaserPosition>>
        add(t, pair) == [t EXCEPT !.new_lasers = Append(@, pair)]
    IN
    IF lp = NoLaserPosition THEN add(s, none)
    ELSE LET o == lp.orientation
             n == neighboring_slot_from_orientation(lp.position, o)
         IN
         IF n = NoPosition THEN add(s, none)
         ELSE IF s.b.active_laser_directions[n][to_index(o)] THEN add(s, none)
         ELSE LET s1 == [s EXCEPT !.b.active_laser_directions[n][to_index(o)] = TRUE] IN
              IF s.b.pieces[n] # NoPiece
              THEN LET r == piece_outbound_lasers(s.b.pieces[n], o)
                       at(x) == IF x = NoOrientation THEN NoLaserPosition
                                ELSE LaserPosition_new(n, x)
                   IN  add([s1 EXCEPT !.b.pieces[n] = r.piece],
                           <<at(r.out[1]), at(r.out[2])>>)
              ELSE add(s1, <<LaserPosition_new(n, o), NoLaserPosition>>)

calculate_new_laser_positions(b) ==
    march_laser_position(
        march_laser_position(
            march_laser_position([b |-> b, new_lasers |-> <<>>], b.laser_positions[1]),
            b.laser_positions[2]),
        b.laser_positions[3])

\* the end of a turn: panic on more than three lasers, else the lasers move
set_laser_positions(b, new_laser_positions) ==
    IF Len(new_laser_positions) > 3
    THEN [b EXCEPT !.panicked = TRUE]
    ELSE [b EXCEPT !.laser_positions =
                       [k \in 1 .. 3 |->
                           IF k <= Len(new_laser_positions)
                           THEN new_laser_positions[k]
                           ELSE NoLaserPosition],
                   !.turns = @ + 1]

\* the new laser positions that are Some, in order, become the lasers
finish_turn(s) ==
    set_laser_positions(
        s.b, SelectSeq(s.new_lasers[1] \o s.new_lasers[2] \o s.new_lasers[3],
                       LAMBDA l : l # NoLaserPosition))

\* one turn of the while loop of calculate_result
GameBoard_turn(b) == finish_turn(calculate_new_laser_positions(b))

RECURSIVE GameBoard_turns(_)
GameBoard_turns(b) ==
    IF b.panicked \/ (\A k \in 1 .. 3 : b.laser_positions[k] = NoLaserPosition) THEN b
    ELSE GameBoard_turns(GameBoard_turn(b))

\* the verdict once no laser is active
set_valid_solution(b) ==
    IF b.panicked THEN b
    ELSE [b EXCEPT !.valid_solution =
              IF /\ Cardinality({i \in Cells : b.pieces[i].target_lit}) = b.targets
                 /\ \A i \in Cells : b.pieces[i].must_light => b.pieces[i].lit
              THEN "Some(true)" ELSE "Some(false)"]

calculate_result_after_setup(b0, setup) ==
    IF ~setup.ok THEN [b0 EXCEPT !.valid_solution = "None"]
    ELSE set_valid_solution(GameBoard_turns(setup.b))

calculate_result(b0) == calculate_result_after_setup(b0, GameBoard_check_setup(b0))

(***************************************************************************)
(* main.rs: Puzzle, and the worker threads of dfs_par                      *)
(***************************************************************************)
\* "true", "false" or "panic" (the panic of calculate_result)
solution_verdict(b) ==
    IF b.panicked THEN "panic"
    ELSE IF b.valid_solution = "Some(true)" THEN "true" ELSE "false"

Puzzle_check_solution(node) ==
    IF node.available_game_pieces # <<>> THEN "false"
    ELSE solution_verdict(calculate_result(GameBoard_new(node.pieces, node.targets)))

piece_count(node, type_) ==
    Cardinality({i \in Cells : node.pieces[i].type_ = type_})
        + Len(SelectSeq(node.available_game_pieces, LAMBDA piece : piece.type_ = type_))

\* Puzzle::check_setup; a piece type is checked when it is in the puzzle.
\* targets - 1 on a u8: with targets = 0 a debug build panics at the
\* subtraction and a release build wraps to 255; both end in the panic of
\* the caller, which panics when check_setup is false.
Puzzle_check_setup(node) ==
    LET in_range(type_, count) ==
            CASE type_ = "Laser" -> count = 1
              [] type_ = "SingleMirror" -> count >= 1 /\ count <= 5
              [] type_ = "SplittingMirror" -> count = overflowing_sub(node.targets, 1)
              [] OTHER -> count <= 1
    IN  /\ piece_count(node, "Laser") > 0
        /\ piece_count(node, "SingleMirror") > 0
        /\ Cardinality({i \in Cells : node.pieces[i].must_light}) <= node.targets
        /\ \A type_ \in {"Block", "Gate", "DoubleMirror", "Laser", "SingleMirror",
                          "SplittingMirror"} :
               piece_count(node, type_) > 0 => in_range(type_, piece_count(node, type_))

RECURSIVE place_piece_branches(_, _, _)
\* one child per empty slot i, i .. 24, with the piece put there
place_piece_branches(node, piece, i) ==
    IF i > 24 THEN <<>>
    ELSE (IF node.pieces[i] = NoPiece
          THEN <<[node EXCEPT !.pieces[i] = piece]>>
          ELSE <<>>) \o place_piece_branches(node, piece, i + 1)

\* the body of the worker loop between the two uses of the lock:
\* [node, new_nodes], node with the placed piece popped from its bag;
\* the children place that piece or, if there is none, give the first piece
\* without an orientation each of the four orientations
worker_new_nodes(node0) ==
    LET n == Len(node0.available_game_pieces)
        node == IF n > 0
                THEN [node0 EXCEPT !.available_game_pieces = SubSeq(@, 1, n - 1)]
                ELSE node0
        placed == IF n > 0
                  THEN place_piece_branches(node, node0.available_game_pieces[n], 0)
                  ELSE <<>>
        free == {i \in Cells : /\ node.pieces[i] # NoPiece
                               /\ node.pieces[i].orientation = NoOrientation}
    IN  [node |-> node,
         new_nodes |->
            IF placed # <<>> THEN placed
            ELSE IF free # {}
            THEN [x \in 1 .. 4 |->
                    [node EXCEPT !.pieces[Min(free)].orientation = ORIENTATION_ORDER[x]]]
            ELSE <<>>]

\* one iteration of the loop of dfs on the popped node: the children are
\* pushed (a node with a piece to place and no empty slot is dropped), or the
\* leaf is checked; [kind, stack, node]
dfs_iteration(rest, node0, r, verdict) ==
    IF node0.available_game_pieces # <<>> \/ r.new_nodes # <<>>
    THEN [kind |-> "Loop", stack |-> rest \o r.new_nodes, node |-> <<>>]
    ELSE IF verdict = "panic"
    THEN [kind |-> "Panic", stack |-> rest, node |-> <<>>]
    ELSE IF verdict = "true"
    THEN [kind |-> "Some", stack |-> rest, node |-> <<r.node>>]
    ELSE [kind |-> "Loop", stack |-> rest, node |-> <<>>]

dfs_pop(rest, node0, r) ==
    dfs_iteration(rest, node0, r,
                  IF node0.available_game_pieces # <<>> \/ r.new_nodes # <<>>
                  THEN "false" ELSE Puzzle_check_solution(r.node))

RECURSIVE dfs_loop(_)
\* the while loop of dfs from a stack: [kind |-> "None"], "Some" with the
\* node, or "Panic"
dfs_loop(s) ==
    IF s.kind # "Loop" THEN s
    ELSE IF s.stack = <<>> THEN [s EXCEPT !.kind = "None"]
    ELSE dfs_loop(dfs_pop(SubSeq(s.stack, 1, Len(s.stack) - 1), s.stack[Len(s.stack)],
                          worker_new_nodes(s.stack[Len(s.stack)])))

\* Puzzle::dfs
dfs(puzzle) ==
    IF ~Puzzle_check_setup(puzzle) THEN [kind |-> "Panic", stack |-> <<>>, node |-> <<>>]
    ELSE dfs_loop([kind |-> "Loop", stack |-> <<puzzle>>, node |-> <<>>])

\* the worker threads that dfs_par spawns
NumWorkers == 2

Worker_new == [pc |-> "unspawned", node |-> <<>>, new_nodes |-> <<>>, ret |-> <<>>]

\* dfs_par: panic!("Invalid puzzle!") when check_setup fails, else the
\* stack holds the puzzle and the threads are spawned
ParCheckSetup ==
    /\ par_main.pc = "start"
    /\ par_main' = [par_main EXCEPT !.pc = IF Puzzle_check_setup(par_stack[1])
                                           THEN "spawning" ELSE "panicked"]
    /\ UNCHANGED <<solverVars, checkerVars, tokenVars, par_stack, par_lock, workers>>

\* thread::spawn of the next worker, which starts at the top of its loop;
\* after the last one the loop over the join handles begins
ParSpawn ==
    /\ par_main.pc = "spawning"
    /\ workers' = [workers EXCEPT ![par_main.spawned + 1].pc = "lock_top"]
    /\ par_main' = [par_main EXCEPT !.spawned = @ + 1,
                                    !.pc = IF par_main.spawned + 1 = NumWorkers
                                           THEN "joining" ELSE @]
    /\ UNCHANGED <<solverVars, checkerVars, tokenVars, par_stack, par_lock>>

\* the join loop returning the first worker's None as the result of dfs_par
ParJoin_first_none ==
    /\ par_main.pc = "joining"
    /\ LET w == workers[par_main.joined + 1] IN
       /\ w.pc \in {"returned", "panicked"}
       /\ par_main' =
             IF w.pc = "panicked" THEN [par_main EXCEPT !.pc = "panicked"]
             ELSE [par_main EXCEPT !.pc = "returned", !.ret = w.ret,
                                   !.joined = @ + 1]
    /\ UNCHANGED <<solverVars, checkerVars, tokenVars, par_stack, par_lock, workers>>

\* thread.join() of the next worker, which has ended: Some(solution) is
\* returned at once, a panic of the worker is raised again by unwrap(),
\* and None is returned after the last worker
ParJoin ==
    /\ par_main.pc = "joining"
    /\ LET w == workers[par_main.joined + 1] IN
       /\ w.pc \in {"returned", "panicked"}
       /\ par_main' =
             IF w.pc = "panicked" THEN [par_main EXCEPT !.pc = "panicked"]
             ELSE IF w.ret # <<>>
             THEN [par_main EXCEPT !.pc = "returned", !.ret = w.ret]
             ELSE [par_main EXCEPT !.joined = @ + 1,
                                   !.pc = IF par_main.joined + 1 = NumWorkers
                                          THEN "returned" ELSE @]
    /\ UNCHANGED <<solverVars, checkerVars, tokenVars, par_stack, par_lock, workers>>

\* stack.lock() at the top of the loop
WorkerLockTop(w) ==
    /\ workers[w].pc = "lock_top"
    /\ par_lock = 0
    /\ par_lock' = w
    /\ workers' = [workers EXCEPT ![w].pc = "locked_top"]
    /\ UNCHANGED <<solverVars, checkerVars, tokenVars, par_stack, par_main>>

\* vec.pop() without the drop(vec) that follows it
WorkerPop_without_drop(w) ==
    /\ workers[w].pc = "locked_top"
    /\ IF par_stack = <<>>
       THEN /\ workers' = [workers EXCEPT ![w].pc = "returned", ![w].ret = <<>>]
            /\ par_lock' = 0
            /\ UNCHANGED par_stack
       ELSE /\ par_stack' = SubSeq(par_stack, 1, Len(par_stack) - 1)
            /\ UNCHANGED par_lock
            /\ workers' = [workers EXCEPT ![w].pc = "work",
                                           ![w].node = <<par_stack[Len(par_stack)]>>]
    /\ UNCHANGED <<solverVars, checkerVars, tokenVars, par_main>>

\* the stack is empty: break, and the thread returns None; else vec.pop();
\* the guard is dropped either way
WorkerPop(w) ==
    /\ workers[w].pc = "locked_top"
    /\ par_lock' = 0
    /\ IF par_stack = <<>>
       THEN /\ workers' = [workers EXCEPT ![w].pc = "returned", ![w].ret = <<>>]
            /\ UNCHANGED par_stack
       ELSE /\ par_stack' = SubSeq(par_stack, 1, Len(par_stack) - 1)
            /\ workers' = [workers EXCEPT ![w].pc = "work",
                                           ![w].node = <<par_stack[Len(par_stack)]>>]
    /\ UNCHANGED <<solverVars, checkerVars, tokenVars, par_main>>

\* the worker after the work done without the lock: it has children to
\* push, or it is at a leaf, where it returns Some(node) if check_solution
\* is true, panics with it, or loops
worker_after_work(worker, r, verdict) ==
    IF r.new_nodes # <<>>
    THEN [worker EXCEPT !.pc = "lock_push", !.node = <<r.node>>,
                        !.new_nodes = r.new_nodes]
    ELSE IF verdict = "panic"
    THEN [worker EXCEPT !.pc = "panicked", !.node = <<>>]
    ELSE IF verdict = "true"
    THEN [worker EXCEPT !.pc = "returned", !.node = <<>>, !.ret = <<r.node>>]
    ELSE [worker EXCEPT !.pc = "lock_top", !.node = <<>>]

worker_work(worker, r) ==
    worker_after_work(worker, r, IF r.new_nodes # <<>> THEN "false"
                                 ELSE Puzzle_check_solution(r.node))

\* the work done without the lock: the children of the node or, at a leaf,
\* check_solution
WorkerExpand(w) ==
    /\ workers[w].pc = "work"
    /\ workers' = [workers EXCEPT
                      ![w] = worker_work(@, worker_new_nodes(workers[w].node[1]))]
    /\ UNCHANGED <<solverVars, checkerVars, tokenVars, par_stack, par_lock, par_main>>

\* stack.lock() to push the children
WorkerLockPush(w) ==
    /\ workers[w].pc = "lock_push"
    /\ par_lock = 0
    /\ par_lock' = w
    /\ workers' = [workers EXCEPT ![w].pc = "locked_push"]
    /\ UNCHANGED <<solverVars, checkerVars, tokenVars, par_stack, par_main>>

\* vec.extend(new_nodes); the guard is dropped at the end of the iteration
WorkerExtend(w) ==
    /\ workers[w].pc = "locked_push"
    /\ par_stack' = par_stack \o workers[w].new_nodes
    /\ par_lock' = 0
    /\ workers' = [workers EXCEPT ![w].pc = "lock_top", ![w].node = <<>>,
                                   ![w].new_nodes = <<>>]
    /\ UNCHANGED <<solverVars, checkerVars, tokenVars, par_main>>

(***************************************************************************)
(* The boards and puzzles the machines are started on                      *)
(***************************************************************************)
Board(placed) ==
    [i \in Cells |-> IF i \in DOMAIN placed THEN placed[i] ELSE NoToken]

Tok(type_, orientation) == Token_new(type_, orientation, FALSE)
MustLight(orientation) == Token_new("TargetMirror", orientation, TRUE)

\* solver.rs wrong_number_targets / no_laser: Default::default()
BoardEmpty == EmptyCells

\* laser at cell 0 facing East, must-light target at cell 4 facing West
BoardStraight == Board(0 :> Tok("Laser", East) @@ 4 :> MustLight(West))

\* laser at 0, through a checkpoint, turned North by a double mirror into
\* a target at cell 12
BoardRelay ==
    Board(0 :> Tok("Laser", East) @@ 1 :> Tok("Checkpoint", East)
          @@ 2 :> Tok("DoubleMirror", East) @@ 12 :> Tok("TargetMirror", South))

\* solver/checker.rs test_checker_simple
BoardSimple ==
    Board(0 :> Tok("Laser", East) @@ 1 :> Tok("BeamSplitter", West)
          @@ 2 :> Tok("TargetMirror", West) @@ 6 :> Tok("TargetMirror", South))

\* solver.rs test_checker_all_tokens
BoardAllTokens ==
    Board(24 :> Tok("Laser", West) @@ 22 :> Tok("BeamSplitter", East)
          @@ 20 :> Tok("TargetMirror", East) @@ 17 :> Tok("Checkpoint", South)
          @@ 12 :> Tok("CellBlocker", West) @@ 7 :> Tok("BeamSplitter", East)
          @@ 2 :> Tok("DoubleMirror", South) @@ 5 :> Tok("TargetMirror", East)
          @@ 4 :> Tok("TargetMirror", West))

\* solver/checker.rs test_solver_puzzle_62_debug
BoardPuzzle62 ==
    Board(0 :> Tok("TargetMirror", North) @@ 11 :> Tok("Laser", East)
          @@ 13 :> Tok("BeamSplitter", East) @@ 14 :> Tok("DoubleMirror", East)
          @@ 15 :> Tok("TargetMirror", West) @@ 17 :> Tok("Checkpoint", East)
          @@ 19 :> Tok("TargetMirror", North) @@ 22 :> Tok("TargetMirror", East)
          @@ 23 :> Tok("TargetMirror", North))

\* a beam splitter feeding a closed loop of four mirrors
BoardLoop ==
    Board(5 :> Tok("Laser", East) @@ 6 :> Tok("BeamSplitter", North)
          @@ 8 :> Tok("TargetMirror", East) @@ 18 :> Tok("TargetMirror", North)
          @@ 16 :> Tok("DoubleMirror", East) @@ 1 :> Tok("TargetMirror", North))

\* two beam splitters that keep four beams alive at once
BoardFourBeams ==
    Board(1 :> Tok("BeamSplitter", North) @@ 2 :> Tok("DoubleMirror", West)
          @@ 3 :> Tok("TargetMirror", South) @@ 6 :> Tok("TargetMirror", West)
          @@ 7 :> Tok("BeamSplitter", West) @@ 12 :> Tok("Laser", South)
          @@ 15 :> Tok("Checkpoint", North) @@ 16 :> Tok("TargetMirror", West)
          @@ 19 :> Tok("TargetMirror", West) @@ 23 :> Tok("TargetMirror", South))

\* bounds of the puzzles: tokens moved from the board to the bag, tokens
\* of the board whose orientation is unset, and the largest target count
MaxBag == 1
MaxUnoriented == 1
MaxTargets == 4
\* bound of the simulated boards: tokens whose orientation is changed
MaxAltered == 2

SolverBoards == {BoardEmpty, BoardStraight}
CheckerBoards == {BoardStraight, BoardSimple, BoardAllTokens, BoardPuzzle62,
                  BoardLoop, BoardFourBeams}

\* one more token put in the bag
ExtraBags == {<<>>, <<Tok("Laser", NoOrientation)>>, <<Tok("CellBlocker", NoOrientation)>>,
              <<Tok("TargetMirror", NoOrientation)>>, <<MustLight(NoOrientation)>>}

\* the subsets of S of at most n elements
RECURSIVE SubsetsUpTo(_, _)
SubsetsUpTo(S, n) ==
    IF n = 0 THEN {{}}
    ELSE LET P == SubsetsUpTo(S, n - 1)
         IN  P \cup {T \cup {x} : T \in P, x \in S}

Unoriented(token) == Token_new(token.type_, NoOrientation, token.must_light)

RECURSIVE TokensInCellOrder(_, _)
TokensInCellOrder(grid, S) ==
    IF S = {} THEN <<>>
    ELSE <<Unoriented(grid[Min(S)])>> \o TokensInCellOrder(grid, S \ {Min(S)})

\* the puzzle made from a board by moving the tokens of the cells `moved' to
\* the bag and unsetting the orientation of the tokens of the cells `unset'
PuzzleGrid(board, moved, unset) ==
    [i \in Cells |-> IF i \in moved THEN NoToken
                     ELSE IF i \in unset THEN Unoriented(board[i])
                     ELSE board[i]]

PuzzlesOf(board) ==
    {p \in {[grid |-> PuzzleGrid(board, moved, unset),
             bag |-> TokensInCellOrder(board, moved) \o extra,
             targets |-> t] :
                moved \in SubsetsUpTo(BoardTokens(board), MaxBag),
                unset \in SubsetsUpTo(BoardTokens(board), MaxUnoriented),
                extra \in ExtraBags, t \in 0 .. MaxTargets} :
        Len(p.bag) <= MaxBag}

Puzzles == UNION {PuzzlesOf(board) : board \in SolverBoards}

IdleChecker == Checker_from_solver_node(SolverNode_new(EmptyCells, <<>>, 0))

\* LaserMazeSolver::new on a puzzle
SolverStart(p) ==
    /\ initial_grid_config = p.grid
    /\ tokens_to_be_added = p.bag
    /\ targets = p.targets
    /\ stack = <<SolverNode_new(p.grid, p.bag, p.targets)>>
    /\ result = Running("NotStarted")
    /\ expanded = 0
    /\ checker = IdleChecker
    /\ outer_iterations = 0
    /\ checker_pc = "idle"
    /\ self_token = NoToken
    /\ interaction = NoInteraction
    /\ ParIdle

Init == \E p \in Puzzles : SolverStart(p)

Next ==
    \/ SolveValidateErr
    \/ SolveValidateOk
    \/ SolveLoopIteration
    \/ SolveExhausted

Spec == Init /\ [][Next]_vars

\* bound of the puzzles of the completeness check: tokens of a solved
\* board that are moved to the bag or have their orientation unset
MaxFree == 2

SearchPuzzles ==
    UNION {{p \in {[grid |-> PuzzleGrid(board, moved, unset),
                    bag |-> TokensInCellOrder(board, moved),
                    targets |-> t] :
                       t \in 0 .. 3,
                       moved \in SubsetsUpTo(BoardTokens(board), MaxFree),
                       unset \in SubsetsUpTo(BoardTokens(board), MaxFree)} :
               Len(p.bag) + Cardinality({i \in Cells :
                                           /\ p.grid[i] # NoToken
                                           /\ p.grid[i].orientation = NoOrientation})
                   <= MaxFree} :
           board \in {BoardStraight, BoardSimple, BoardRelay}}

InitSearch == \E p \in SearchPuzzles : SolverStart(p)

SpecSearch == InitSearch /\ [][Next]_vars

\* the boards the simulator is run on: a board with the tokens of `alt'
\* turned (or, except for the laser, with their orientation unset)
AlteredBoard(board, alt) ==
    [i \in Cells |-> IF i \in DOMAIN alt
                     THEN Token_new(board[i].type_, alt[i], board[i].must_light)
                     ELSE board[i]]

\* the shuffled bag of the simulated node: empty, or a second beam splitter
ShuffledBags(b) ==
    IF token_count(b, <<>>, "BeamSplitter") < max_count("BeamSplitter")
    THEN {<<>>, <<Tok("BeamSplitter", NoOrientation)>>}
    ELSE {<<>>}

\* Checker::from_solver_node on a node
InitCheck ==
    /\ \E board \in CheckerBoards :
       \E S \in SubsetsUpTo(BoardTokens(board), MaxAltered) :
       \E alt \in [S -> North .. NoOrientation] :
       \E t \in 1 .. 3 :
       \E q \in ShuffledBags(board) :
          /\ \A i \in S : board[i].type_ = "Laser" => alt[i] # NoOrientation
          /\ checker = Checker_from_solver_node(
                           [SolverNode_new(AlteredBoard(board, alt), <<>>, t) EXCEPT
                                !.tokens_to_be_added_shuffled = q])
    /\ outer_iterations = 0
    /\ checker_pc = "created"
    /\ initial_grid_config = EmptyCells
    /\ tokens_to_be_added = <<>>
    /\ targets = 0
    /\ stack = <<>>
    /\ result = Running("Idle")
    /\ expanded = 0
    /\ self_token = NoToken
    /\ interaction = NoInteraction
    /\ ParIdle

NextCheck ==
    \/ CheckerInitialize
    \/ CheckerOuterIteration
    \/ CheckerReturn

SpecCheck == InitCheck /\ [][NextCheck]_vars

\* bound of the puzzles whose piece counts are validated: tokens put in the
\* bag of a board whose tokens are all placed and oriented
MaxExtra == 1

CountBoards == {BoardEmpty, BoardAllTokens, BoardPuzzle62}

\* the tokens a bag can be given: one of each type, and a must-light target
BagTokens ==
    {Tok(type_, NoOrientation) : type_ \in SeqRange(TOKEN_TYPES)}
        \cup {MustLight(NoOrientation)}

BagsUpTo(n) == UNION {[1 .. k -> BagTokens] : k \in 0 .. n}

CountPuzzles ==
    {[grid |-> board, bag |-> bag, targets |-> t] :
        board \in CountBoards, bag \in BagsUpTo(MaxExtra), t \in 0 .. MaxTargets}

InitCounts == \E p \in CountPuzzles : SolverStart(p)

SpecCounts == InitCounts /\ [][Next]_vars

\* Token::new with every type, every orientation or none, and both values
\* of must_light
InitToken ==
    /\ \E type_ \in SeqRange(TOKEN_TYPES), orientation \in North .. NoOrientation,
          must_light \in BOOLEAN :
          self_token = Token_new(type_, orientation, must_light)
    /\ interaction = NoInteraction
    /\ ParIdle
    /\ initial_grid_config = EmptyCells
    /\ tokens_to_be_added = <<>>
    /\ targets = 0
    /\ stack = <<>>
    /\ result = Running("Idle")
    /\ expanded = 0
    /\ checker = IdleChecker
    /\ outer_iterations = 0
    /\ checker_pc = "idle"

NextToken ==
    \/ TokenInteract
    \/ TokenInteractUnoriented
    \/ TokenReset
    \/ TokenToggleMustLight

SpecToken == InitToken /\ [][NextToken]_vars

\* bound of the puzzles given to dfs_par: pieces on the board whose
\* orientation is not set
MaxRotationFree == 1

PieceBoard(placed) ==
    [i \in Cells |-> IF i \in DOMAIN placed THEN placed[i] ELSE NoPiece]

\* the laser at slot 0 facing East, a target at slot 4 facing West
ParBoardStraight ==
    PieceBoard(0 :> GamePiece_new("Laser", East)
               @@ 4 :> GamePiece_new("SingleMirror", West))

\* the laser at slot 0, a splitting mirror at slot 2, targets at slots 4 and 12
ParBoardSplit ==
    PieceBoard(0 :> GamePiece_new("Laser", East)
               @@ 2 :> GamePiece_new("SplittingMirror", West)
               @@ 4 :> GamePiece_new("SingleMirror", West)
               @@ 12 :> GamePiece_new("SingleMirror", South))

\* the laser at slot 0, splitting mirrors at slots 1 and 13, single mirrors
\* at slots 3, 11, 14 and 18: with the mirror at slot 3 facing West the three
\* beams end on the targets at slots 3, 14 and 18; with it facing East the two
\* beams of the first splitter reach the second one in the same turn
ParBoardTwoSplitters ==
    PieceBoard(0 :> GamePiece_new("Laser", East)
               @@ 1 :> GamePiece_new("SplittingMirror", West)
               @@ 3 :> GamePiece_new("SingleMirror", West)
               @@ 11 :> GamePiece_new("SingleMirror", West)
               @@ 13 :> GamePiece_new("SplittingMirror", West)
               @@ 14 :> GamePiece_new("SingleMirror", West)
               @@ 18 :> GamePiece_new("SingleMirror", South))

\* the board with up to MaxRotationFree of its pieces left to rotate
ParPuzzlesOf(board) ==
    {[pieces |-> [i \in Cells |-> IF i \in unset
                                  THEN [board[i] EXCEPT !.orientation = NoOrientation]
                                  ELSE board[i]],
      available_game_pieces |-> <<>>,
      targets |-> t] :
        unset \in SubsetsUpTo({i \in Cells : board[i] # NoPiece}, MaxRotationFree),
        t \in 1 .. 2}

\* those, and a puzzle with a piece to place
ParPuzzles ==
    ParPuzzlesOf(ParBoardStraight) \cup ParPuzzlesOf(ParBoardSplit)
      \cup {[pieces |-> ParBoardStraight,
             available_game_pieces |-> <<GamePiece_new("DoubleMirror", East)>>,
             targets |-> 1],
            [pieces |-> [ParBoardTwoSplitters EXCEPT ![3].orientation = NoOrientation],
             available_game_pieces |-> <<>>,
             targets |-> 3]}

InitPar ==
    /\ \E p \in ParPuzzles :
          /\ par_stack = <<p>>
          /\ par_main = [pc |-> "start", puzzle |-> <<p>>, spawned |-> 0,
                         joined |-> 0, ret |-> <<>>]
    /\ par_lock = 0
    /\ workers = [w \in 1 .. NumWorkers |-> Worker_new]
    /\ self_token = NoToken
    /\ interaction = NoInteraction
    /\ initial_grid_config = EmptyCells
    /\ tokens_to_be_added = <<>>
    /\ targets = 0
    /\ stack = <<>>
    /\ result = Running("Idle")
    /\ expanded = 0
    /\ checker = IdleChecker
    /\ outer_iterations = 0
    /\ checker_pc = "idle"

NextPar ==
    \/ ParCheckSetup
    \/ ParSpawn
    \/ ParJoin
    \/ \E w \in 1 .. NumWorkers :
          \/ WorkerLockTop(w)
          \/ WorkerPop(w)
          \/ WorkerExpand(w)
          \/ WorkerLockPush(w)
          \/ WorkerExtend(w)

SpecPar == InitPar /\ [][NextPar]_vars

(***************************************************************************)
(* generate_branches called once on a node of the search                   *)
(***************************************************************************)
\* bounds of the nodes: the size of the bag that is shuffled, the size of
\* the shuffled bag
MaxShuffle == 4
MaxShuffled == 2

\* no CellBlocker, or the CellBlocker in a cell that is free
BlockerBoards(board) ==
    {board} \cup {[board EXCEPT ![b] = Tok("CellBlocker", North)] :
                     b \in {i \in Cells : board[i] = NoToken}}

\* the five kinds of token a bag holds once the laser is placed
BagKinds ==
    <<MustLight(NoOrientation), Tok("TargetMirror", NoOrientation),
      Tok("Checkpoint", NoOrientation), Tok("DoubleMirror", NoOrientation),
      Tok("BeamSplitter", NoOrientation)>>

\* the laser is in the bag, alone or with a checkpoint; a target is at the
\* centre or next to it
LaserInBagNodes ==
    {SolverNode_new(board, bag, 1) :
        board \in BlockerBoards(Board(12 :> Tok("TargetMirror", South)))
                     \cup BlockerBoards(Board(6 :> Tok("TargetMirror", South))),
        bag \in {<<Tok("Laser", NoOrientation)>>,
                 <<Tok("Laser", NoOrientation), Tok("Checkpoint", NoOrientation)>>,
                 <<Tok("Checkpoint", NoOrientation), Tok("Laser", NoOrientation)>>}}

\* the laser is on the board and has no orientation
LaserUnorientedNodes ==
    UNION {{SolverNode_new(board, <<>>, 1) :
               board \in BlockerBoards(Board(c :> Tok("Laser", NoOrientation)
                                             @@ 12 :> Tok("TargetMirror", South)))} :
           c \in Cells \ {12}}

\* the cells in front of a laser, nearest first
LaserLines ==
    {[laser |-> 0, orientation |-> East, cells |-> <<1, 2, 3, 4>>],
     [laser |-> 0, orientation |-> North, cells |-> <<5, 10, 15, 20>>],
     [laser |-> 24, orientation |-> West, cells |-> <<23, 22, 21, 20>>],
     [laser |-> 24, orientation |-> South, cells |-> <<19, 14, 9, 4>>],
     [laser |-> 5, orientation |-> East, cells |-> <<6, 7, 8, 9>>]}

\* a token without orientation stands in the beam
TokenUnorientedNodes ==
    UNION {{SolverNode_new(board, <<>>, 2) :
               board \in BlockerBoards(Board(line.laser :> Tok("Laser", line.orientation)
                                             @@ line.cells[k] :> BagKinds[t]
                                             @@ 12 :> Tok("TargetMirror", South)))} :
           line \in LaserLines, k \in 1 .. 4, t \in 1 .. 5}

\* the bag with n[k] tokens of kind k, kind by kind
RECURSIVE BagOfCounts(_, _)
BagOfCounts(n, k) ==
    IF k > 5 THEN <<>>
    ELSE [j \in 1 .. n[k] |-> BagKinds[k]] \o BagOfCounts(n, k + 1)

Reverse(q) == [k \in 1 .. Len(q) |-> q[Len(q) + 1 - k]]

\* the laser is placed and oriented and the bag is not empty
ShuffleNodes ==
    UNION {{SolverNode_new(BoardStraight, BagOfCounts(n, 1), 3),
            SolverNode_new(BoardStraight, Reverse(BagOfCounts(n, 1)), 3)} :
           n \in {m \in [1 .. 5 -> 0 .. 2] :
                    /\ m[3] <= 1
                    /\ m[4] <= 1
                    /\ m[1] + m[2] + m[3] + m[4] + m[5] \in 1 .. MaxShuffle}}

\* the bag is shuffled and tokens of it are left to place in the beam
PlacementNodes ==
    {[SolverNode_new(board, <<>>, 2) EXCEPT !.tokens_to_be_added_shuffled = q] :
        board \in {BoardStraight, BoardRelay, BoardSimple,
                   [BoardRelay EXCEPT ![2] = NoToken],
                   [BoardSimple EXCEPT ![6] = NoToken]},
        q \in UNION {[1 .. len -> SeqRange(BagKinds)] : len \in 1 .. MaxShuffled}}

BranchNodes ==
    LaserInBagNodes \cup LaserUnorientedNodes \cup TokenUnorientedNodes
        \cup ShuffleNodes \cup PlacementNodes

InitBranch ==
    /\ \E node \in BranchNodes :
          /\ stack = <<node>>
          /\ initial_grid_config = node.cells
          /\ tokens_to_be_added = node.tokens_to_be_added
          /\ targets = node.targets
    /\ result = Running("Branching")
    /\ expanded = 0
    /\ checker = IdleChecker
    /\ outer_iterations = 0
    /\ checker_pc = "idle"
    /\ self_token = NoToken
    /\ interaction = NoInteraction
    /\ ParIdle

\* node.generate_branches() on the node: the node is kept, followed by the
\* new nodes it returned
BranchStep ==
    /\ result.kind = "Branching"
    /\ LET r == generate_branches(stack[1])
       IN  /\ stack' = stack \o r.nodes
           /\ result' = CASE r.kind = "Ok" -> [kind |-> "OkSome", cells |-> r.cells,
                                               msg |-> ""]
                          [] r.kind = "Panic" -> Running("Panic")
                          [] OTHER -> Running("Branched")
    /\ expanded' = expanded + 1
    /\ UNCHANGED <<initial_grid_config, tokens_to_be_added, targets, checkerVars, tokenVars, parVars>>

SpecBranch == InitBranch /\ [][BranchStep]_vars

(***************************************************************************)
(* solve() with the simulation of a node taken one outer iteration at a    *)
(* time                                                                    *)
(***************************************************************************)
\* the node that the next iteration of the while loop of solve() pops
TopNode == stack[Len(stack)]

\* generate_branches does not get to the simulator on the top node
BranchesWithoutCheck ==
    ~laser_placed_and_rotated(TopNode) \/ TopNode.tokens_to_be_added # <<>>

\* an iteration that pops a node whose children are made without simulation
SolveBranchWithoutCheck ==
    /\ stack # <<>>
    /\ BranchesWithoutCheck
    /\ SolveLoopIteration

\* an iteration that pops a node and gets to the last line of
\* generate_branches: self.clone_to_checker().check() is called
SolveStartCheck ==
    /\ result.kind = "Searching"
    /\ stack # <<>>
    /\ expanded < MaxExpanded
    /\ ~BranchesWithoutCheck
    /\ checker' = Checker_from_solver_node(TopNode)
    /\ checker_pc' = "created"
    /\ outer_iterations' = 0
    /\ stack' = SubSeq(stack, 1, Len(stack) - 1)
    /\ result' = Running("Checking")
    /\ expanded' = expanded + 1
    /\ UNCHANGED <<initial_grid_config, tokens_to_be_added, targets, tokenVars, parVars>>

\* check() has returned the checker and Checker::generate_branches is called
\* on it: it calls self.check() once more, on the checker as it is
SolveCheckAgain ==
    /\ result.kind = "Checking"
    /\ checker_pc = "done"
    /\ IF checker.panicked
       THEN /\ result' = Running("Panic")
            /\ UNCHANGED <<checker_pc, outer_iterations>>
       ELSE /\ result' = Running("Generating")
            /\ checker_pc' = "created"
            /\ outer_iterations' = 0
    /\ UNCHANGED <<initial_grid_config, tokens_to_be_added, targets, stack, expanded,
                   checker, tokenVars, parVars>>

\* the second check() has returned: the solution is returned, or the new
\* nodes go on the stack
SolveFinishCheck ==
    /\ result.kind = "Generating"
    /\ checker_pc = "done"
    /\ checker_pc' = "idle"
    /\ IF checker.panicked
       THEN result' = Running("Panic") /\ stack' = stack
       ELSE IF solved(checker)
       THEN /\ result' = [kind |-> "OkSome", cells |-> reset_tokens(checker.grid).cells,
                          msg |-> ""]
            /\ stack' = stack
       ELSE /\ result' = Running("Searching")
            /\ stack' = stack \o generate_branches_after_check(
                                     [checker EXCEPT !.grid = reset_tokens(checker.grid)])
    /\ UNCHANGED <<initial_grid_config, tokens_to_be_added, targets, expanded, checker,
                   outer_iterations, tokenVars, parVars>>

NextSteps ==
    \/ SolveValidateErr
    \/ SolveValidateOk
    \/ SolveBranchWithoutCheck
    \/ SolveStartCheck
    \/ CheckerInitialize
    \/ CheckerOuterIteration
    \/ CheckerReturn
    \/ SolveCheckAgain
    \/ SolveFinishCheck
    \/ SolveExhausted

SpecSteps == InitSearch /\ [][NextSteps]_vars

(***************************************************************************)
(* The two calls of check() on boards with tokens at the edges             *)
(***************************************************************************)
\* the cells of the row and of the column of a cell, the cell left out
LineCells(i) == {j \in Cells \ {i} : j \div 5 = i \div 5 \/ j % 5 = i % 5}

\* the cells next to a cell
AdjacentCells(i) ==
    {j \in Cells : \/ (j \div 5 = i \div 5 /\ (j - i) \in {-1, 1})
                   \/ (j % 5 = i % 5 /\ (j - i) \in {-5, 5})}

\* nothing, a cell blocker or a checkpoint
EdgeTokens ==
    {NoToken, Tok("CellBlocker", North)} \cup {Tok("Checkpoint", c) : c \in North .. West}

\* a laser, a must-light target in the row or the column of the laser, and
\* in a cell next to one of the two nothing, a cell blocker or a checkpoint
EdgeBoard(l, o, t, q, x, token) ==
    [i \in Cells |-> IF i = l THEN Tok("Laser", o)
                     ELSE IF i = t THEN MustLight(q)
                     ELSE IF i = x THEN token
                     ELSE NoToken]

InitEdge ==
    /\ \E l \in Cells, o \in North .. West :
       \E t \in LineCells(l), q \in North .. West :
       \E x \in (AdjacentCells(l) \cup AdjacentCells(t)) \ {l, t}, token \in EdgeTokens :
          checker = Checker_from_solver_node(
                        SolverNode_new(EdgeBoard(l, o, t, q, x, token), <<>>, 1))
    /\ outer_iterations = 0
    /\ checker_pc = "created"
    /\ initial_grid_config = EmptyCells
    /\ tokens_to_be_added = <<>>
    /\ targets = 0
    /\ stack = <<>>
    /\ result = Running("Idle")
    /\ expanded = 0
    /\ self_token = NoToken
    /\ interaction = NoInteraction
    /\ ParIdle

\* self.clone_to_checker().check(), and the check() that
\* Checker::generate_branches then calls on the same checker
CheckerCheck ==
    /\ checker_pc \in {"created", "checked"}
    /\ checker' = check(checker)
    /\ checker_pc' = IF checker_pc = "created" THEN "checked" ELSE "done"
    /\ UNCHANGED <<solverVars, tokenVars, parVars, outer_iterations>>

SpecEdge == InitEdge /\ [][CheckerCheck]_vars

(***************************************************************************)
(* Properties of LaserMazeSolver::solve                                    *)
(***************************************************************************)
\* the checker run on a board with nothing left to add
Simulated(cells) ==
    check(Checker_from_solver_node(SolverNode_new(cells, <<>>, targets)))

\* C1: whenever solve() returns Ok(Some(cells)), a fresh run of the checker
\* on a node made of those cells, with both bags empty and the puzzle's
\* target count, ends with solved() true
C1_ReturnedBoardIsSolved ==
    [][result'.kind = "OkSome" => solved(Simulated(result'.cells))]_vars

\* a solution was returned for a puzzle that had a token to place
C1_Witness ==
    /\ result.kind = "OkSome"
    /\ tokens_to_be_added # <<>>
    /\ solved(Simulated(result.cells))

\* the ways of putting the n tokens of a bag on distinct cells of S
Injections(n, S) ==
    {f \in [1 .. n -> S] : \A i, j \in 1 .. n : i # j => f[i] # f[j]}

\* the board with bag[k] put on cell f[k] and every token without an
\* orientation turned to o[its cell]
Completion(grid, bag, f, o) ==
    [i \in Cells |->
        LET t == IF \E k \in DOMAIN f : f[k] = i
                 THEN bag[CHOOSE k \in DOMAIN f : f[k] = i]
                 ELSE grid[i]
        IN  IF t = NoToken THEN NoToken
            ELSE IF t.orientation = NoOrientation
            THEN Token_new(t.type_, o[i], t.must_light)
            ELSE t]

\* the cells whose token gets its orientation from the completion
FreeCells(grid, f) ==
    {f[k] : k \in DOMAIN f}
        \cup {i \in Cells : grid[i] # NoToken /\ grid[i].orientation = NoOrientation}

\* some placement of the bag on empty cells and some orientation of the
\* unoriented tokens is reported solved by the simulator
ExistsSolution(grid, bag, n_targets) ==
    \E f \in Injections(Len(bag), Cells \ BoardTokens(grid)) :
        \E o \in [FreeCells(grid, f) -> North .. West] :
            solved(check(Checker_from_solver_node(
                SolverNode_new(Completion(grid, bag, f, o), <<>>, n_targets))))

\* C2: solve() returns Ok(None) only if no placement of the bag pieces on
\* empty cells and no orientation of the unoriented pieces is solved
C2_NoneOnlyIfUnsolvable ==
    result.kind = "OkNone"
        => ~ExistsSolution(initial_grid_config, tokens_to_be_added, targets)

\* Ok(None) was returned after a search that placed a token of the bag
C2_Witness ==
    /\ result.kind = "OkNone"
    /\ tokens_to_be_added # <<>>
    /\ expanded > Len(tokens_to_be_added) + 1
    /\ ~ExistsSolution(initial_grid_config, tokens_to_be_added, targets)

UnorientedCells(cells) ==
    {i \in Cells : cells[i] # NoToken /\ cells[i].orientation = NoOrientation}

\* C3: the node solve() reports solved has nothing left in tokens_to_be_added
\* or tokens_to_be_added_shuffled, and every token of the returned board has
\* an orientation
C3_ReturnedBoardIsComplete ==
    [][(result.kind = "Searching" /\ result'.kind = "OkSome")
          => /\ stack[Len(stack)].tokens_to_be_added = <<>>
             /\ stack[Len(stack)].tokens_to_be_added_shuffled = <<>>
             /\ UnorientedCells(result'.cells) = {}]_vars

\* a solution was returned that holds the token of the bag and the token
\* that had no orientation, both oriented
C3_Witness ==
    /\ result.kind = "OkSome"
    /\ tokens_to_be_added # <<>>
    /\ UnorientedCells(initial_grid_config) # {}
    /\ Cardinality(BoardTokens(result.cells))
           = Cardinality(BoardTokens(initial_grid_config)) + Len(tokens_to_be_added)
    /\ UnorientedCells(result.cells) = {}

\* what is left to do on a node: bag entries not yet shuffled weigh more than
\* shuffled ones, which weigh more than placed tokens without an orientation
Measure(node) ==
    3 * Len(node.tokens_to_be_added)
        + 2 * Len(node.tokens_to_be_added_shuffled)
        + Cardinality(UnorientedCells(node.cells))

\* C4: every node solve() pushes has a strictly smaller measure (unplaced,
\* unshuffled and unoriented pieces) than the node it was generated from, and
\* the loop ends only by returning a solution or by emptying the stack
C4_ChildrenAreSmaller ==
    /\ [][(result.kind = "Searching" /\ stack # <<>>)
             => \A k \in Len(stack) .. Len(stack') :
                    Measure(stack'[k]) < Measure(stack[Len(stack)])]_vars
    /\ [](result.kind # "Panic")

\* a search that went through every kind of branch and emptied the stack
C4_Witness ==
    /\ result.kind = "OkNone"
    /\ stack = <<>>
    /\ tokens_to_be_added # <<>>
    /\ UnorientedCells(initial_grid_config) # {}
    /\ expanded > 10

\* the validation rules: the target count, the count of each token type,
\* the must-light targets of the whole puzzle, no CellBlocker in the bag
ViolatesValidationRule(grid, bag, n_targets) ==
    \/ n_targets \notin 1 .. 3
    \/ \E type_ \in SeqRange(TOKEN_TYPES) :
          \/ token_count(grid, bag, type_) < min_count(type_)
          \/ token_count(grid, bag, type_) > max_count(type_)
    \/ Cardinality({i \in Cells : grid[i].must_light})
          + Len(SelectSeq(bag, LAMBDA token : token.must_light)) > n_targets
    \/ \E k \in DOMAIN bag : bag[k].type_ = "CellBlocker"

\* C8: solve() returns Err exactly for the puzzles that violate a validation
\* rule, with the stack still holding only the root node, and searches (and
\* returns Ok) for all others
C8_ErrExactlyOnRuleViolation ==
    /\ result.kind = "Err"
          => /\ ViolatesValidationRule(initial_grid_config, tokens_to_be_added, targets)
             /\ stack = <<SolverNode_new(initial_grid_config, tokens_to_be_added, targets)>>
             /\ expanded = 0
    /\ result.kind \in {"Searching", "OkSome", "OkNone"}
          => ~ViolatesValidationRule(initial_grid_config, tokens_to_be_added, targets)

\* C9: with targets = 0 or targets > 3, solve() returns
\* Err("Invalid number of targets!") whatever the board and the bag hold
C9_TargetCountCheckedFirst ==
    (result.kind # "NotStarted" /\ (targets = 0 \/ targets > 3))
        => (result.kind = "Err" /\ result.msg = "Invalid number of targets!")

\* the target-count error was returned for a puzzle whose piece counts are
\* out of range too
C9_Witness ==
    /\ result.kind = "Err"
    /\ result.msg = "Invalid number of targets!"
    /\ targets > 3
    /\ InvalidCountTypes(initial_grid_config, tokens_to_be_added) # {}

\* C10: with targets in 1..3 and a number of Laser tokens other than 1,
\* solve() returns Err("Invalid piece count for piece type Laser!")
C10_LaserCountError ==
    (/\ result.kind # "NotStarted"
     /\ targets \in 1 .. 3
     /\ token_count(initial_grid_config, tokens_to_be_added, "Laser") # 1)
        => (result.kind = "Err"
            /\ result.msg = "Invalid piece count for piece type Laser!")

(***************************************************************************)
(* Properties of Checker::check and Checker::solved                        *)
(***************************************************************************)
\* C5: on a board with a placed and oriented laser the outer loop of check()
\* runs at most 100 times
C5_OuterLoopBound == outer_iterations <= 100

\* check() has returned on the board whose beam goes round the ring of
\* mirrors 8, 18, 16 and comes back to the beam splitter at 6
C5_Witness ==
    /\ checker_pc = "done"
    /\ checker.grid.cells[6].type_ = "BeamSplitter"
    /\ checker.grid.cells[6].orientation = North
    /\ checker.laser_visited[7][East]
    /\ checker.laser_visited[13][North]
    /\ checker.laser_visited[17][West]
    /\ checker.laser_visited[11][South]
    /\ checker.all_lasers_remain_on_board
    /\ outer_iterations >= 9

\* C6: no step of the simulation needs a fifth active-laser slot: the panic
\* "laser index > 3" does not happen
C6_NoFifthLaser == ~checker.panicked

\* four beams are active at once
C6_Witness ==
    /\ checker_pc = "running"
    /\ \A k \in 1 .. 4 : checker.active_lasers[k] # NoLaser

LitTargets(c) == {i \in Cells : c.grid.cells[i].target_lit = "Some(true)"}

\* C7: when check() has finished, solved() is true exactly when the number
\* of lit targets equals targets, every must-light token is a lit target,
\* every token is lit, no beam left the board or hit an invalid side, and
\* both bags are empty
C7_SolvedIffFiveConditions ==
    checker_pc = "done"
        => (solved(checker)
              <=> /\ Cardinality(LitTargets(checker)) = checker.grid.targets
                  /\ \A i \in BoardTokens(checker.grid.cells) :
                         checker.grid.cells[i].must_light => i \in LitTargets(checker)
                  /\ \A i \in BoardTokens(checker.grid.cells) : checker.grid.cells[i].lit
                  /\ checker.all_lasers_remain_on_board
                  /\ checker.grid.tokens_to_be_added = <<>>
                  /\ checker.grid.tokens_to_be_added_shuffled = <<>>)

\* check() has finished with more lit targets than asked for and the four
\* other conditions true: the board is not solved
C7_Witness ==
    /\ checker_pc = "done"
    /\ ~solved(checker)
    /\ Cardinality(LitTargets(checker)) > checker.grid.targets
    /\ \A i \in BoardTokens(checker.grid.cells) :
           /\ checker.grid.cells[i].lit
           /\ checker.grid.cells[i].must_light => i \in LitTargets(checker)
    /\ checker.all_lasers_remain_on_board
    /\ checker.grid.tokens_to_be_added_shuffled = <<>>

(***************************************************************************)
(* Properties of LaserMazeSolver::validate                                 *)
(***************************************************************************)
\* the range of the count of each token type, board plus bag
CountInRange(type_, count) ==
    CASE type_ = "Laser" -> count = 1
      [] type_ = "TargetMirror" -> count \in 1 .. 5
      [] type_ = "BeamSplitter" -> count \in 0 .. 2
      [] type_ = "DoubleMirror" -> count \in 0 .. 1
      [] type_ = "Checkpoint" -> count \in 0 .. 1
      [] type_ = "CellBlocker" -> count \in 0 .. 1

TypesOutOfRange ==
    {type_ \in {"Laser", "TargetMirror", "BeamSplitter", "DoubleMirror", "Checkpoint",
                "CellBlocker"} :
        ~CountInRange(type_, token_count(initial_grid_config, tokens_to_be_added, type_))}

\* C11: solve() returns Err whenever the count of some token type, board
\* plus bag, is out of its range; and a puzzle whose counts are all in range
\* (BeamSplitter 0..2 whatever the target count) is rejected only for its
\* target count, its must-light tokens or a CellBlocker in the bag, never
\* with a piece-count message
C11_CountOutOfRangeRejected ==
    /\ (result.kind # "NotStarted" /\ TypesOutOfRange # {}) => result.kind = "Err"
    /\ (result.kind = "Err" /\ TypesOutOfRange = {})
          => result.msg \in {"Invalid number of targets!",
                             "Invalid number of pieces which must be lit!",
                             "Cell Blocker included in tokens_to_be_added!"}
    /\ (/\ result.kind # "NotStarted"
        /\ TypesOutOfRange = {}
        /\ targets \in 1 .. 3
        /\ must_light_count(initial_grid_config) <= targets
        /\ \A k \in DOMAIN tokens_to_be_added :
               tokens_to_be_added[k].type_ # "CellBlocker")
          => result.kind # "Err"

\* a third beam splitter, the only count out of range, was rejected although
\* the target count is 3
C11_Witness ==
    /\ result.kind = "Err"
    /\ targets = 3
    /\ TypesOutOfRange = {"BeamSplitter"}
    /\ token_count(initial_grid_config, tokens_to_be_added, "BeamSplitter") = 3
    /\ result.msg = "Invalid piece count for piece type BeamSplitter!"

\* the must-light targets of the whole puzzle, on the board and in the bag
MustLightTargets ==
    Cardinality({i \in Cells : /\ initial_grid_config[i].type_ = "TargetMirror"
                               /\ initial_grid_config[i].must_light})
        + Len(SelectSeq(tokens_to_be_added,
                        LAMBDA token : token.type_ = "TargetMirror" /\ token.must_light))

\* C12: solve() returns Err for every puzzle with more must-light
\* TargetMirror tokens, on the board and in the bag together, than targets
C12_MustLightCountedEverywhere ==
    (result.kind # "NotStarted" /\ MustLightTargets > targets) => result.kind = "Err"

CellBlockerIn(bag) == \E k \in DOMAIN bag : bag[k].type_ = "CellBlocker"

\* C13: solve() returns Err for every puzzle with a CellBlocker in
\* tokens_to_be_added, and no node of a search that has started holds a
\* CellBlocker in tokens_to_be_added or tokens_to_be_added_shuffled
C13_NoCellBlockerInBag ==
    /\ (result.kind # "NotStarted" /\ CellBlockerIn(tokens_to_be_added))
          => result.kind = "Err"
    /\ result.kind \notin {"NotStarted", "Err"}
          => \A k \in DOMAIN stack :
                /\ ~CellBlockerIn(stack[k].tokens_to_be_added)
                /\ ~CellBlockerIn(stack[k].tokens_to_be_added_shuffled)

\* a puzzle whose only fault is the CellBlocker of its bag was rejected with
\* the message of that rule
C13_Witness ==
    /\ result.kind = "Err"
    /\ result.msg = "Cell Blocker included in tokens_to_be_added!"
    /\ CellBlockerIn(tokens_to_be_added)
    /\ TypesOutOfRange = {}
    /\ targets \in 1 .. 3

(***************************************************************************)
(* Properties of Token and Orientation                                     *)
(***************************************************************************)
\* the directions of the beams a call returned, and whether it returned an
\* invalid termination
OutboundOf(results) ==
    {results[k].orientation : k \in {k \in 1 .. 2 : results[k].kind = "OutboundLaser"}}

InvalidTermination(results) ==
    \E k \in 1 .. 2 : results[k].kind = "NoOutboundLaser" /\ ~results[k].valid

\* C14: for a token oriented North the interaction is the reference table:
\* Laser - South ends validly, every other direction invalidly; Checkpoint -
\* North/South pass straight through and set lit, East/West end invalidly;
\* TargetMirror - North gives West, East gives South, West ends invalidly,
\* South ends validly and sets target_lit; DoubleMirror - North <-> West and
\* South <-> East, one outbound; CellBlocker - outbound equals inbound;
\* BeamSplitter - the DoubleMirror reflection plus the transmitted beam
C14_ReferenceTable ==
    (interaction.kind = "Done" /\ interaction.before.orientation = North) =>
        LET type_ == interaction.before.type_
            d == interaction.inbound
            out == OutboundOf(interaction.results)
            invalid == InvalidTermination(interaction.results)
            mirrored == CASE d = North -> West [] d = West -> North
                          [] d = South -> East [] d = East -> South
        IN  /\ type_ = "Laser" => out = {} /\ (invalid <=> d # South)
            /\ type_ = "Checkpoint" =>
                  IF d \in {North, South}
                  THEN out = {d} /\ ~invalid /\ interaction.after.lit
                  ELSE out = {} /\ invalid
            /\ type_ = "TargetMirror" =>
                  /\ d = North => out = {West} /\ ~invalid
                  /\ d = East => out = {South} /\ ~invalid
                  /\ d = West => out = {} /\ invalid
                  /\ d = South => /\ out = {} /\ ~invalid
                                  /\ interaction.after.target_lit = "Some(true)"
                  /\ d # South =>
                        interaction.after.target_lit = interaction.before.target_lit
            /\ type_ = "DoubleMirror" =>
                  /\ out = {mirrored} /\ ~invalid
                  /\ interaction.results[2].kind = "NoOutboundLaser"
            /\ type_ = "CellBlocker" => out = {d} /\ ~invalid
            /\ type_ = "BeamSplitter" =>
                  /\ interaction.results[1] = OutboundLaser(mirrored)
                  /\ interaction.results[2] = OutboundLaser(d)

\* a TargetMirror facing North absorbed a beam going South and was lit
C14_Witness ==
    /\ interaction.kind = "Done"
    /\ interaction.before.type_ = "TargetMirror"
    /\ interaction.before.orientation = North
    /\ interaction.before.target_lit = "Some(false)"
    /\ interaction.inbound = South
    /\ interaction.after.target_lit = "Some(true)"

\* C15: for every type, orientation o and inbound direction d the results
\* are those of the reference table for the local direction (d - o) mod 4
\* with every outbound direction turned by +o mod 4; terminations, their
\* valid flag and the effects on lit and target_lit are those of the table
C15_RotatedReferenceTable ==
    interaction.kind = "Done" =>
        LET o == interaction.before.orientation
            ref == reference_outbound_lasers_given_inbound_laser_direction(
                       interaction.before, (interaction.inbound - o + 4) % 4)
        IN  /\ \A k \in 1 .. 2 :
                  interaction.results[k] =
                      IF ref.results[k].kind = "OutboundLaser"
                      THEN OutboundLaser((ref.results[k].orientation + o) % 4)
                      ELSE ref.results[k]
            /\ interaction.after = ref.token

\* a BeamSplitter facing South split a beam going East, West in its own
\* frame: the reflection North and the transmission West of the table come
\* out as South and East
C15_Witness ==
    /\ interaction.kind = "Done"
    /\ interaction.before.type_ = "BeamSplitter"
    /\ interaction.before.orientation = South
    /\ interaction.inbound = East
    /\ interaction.local = West
    /\ interaction.results = <<OutboundLaser(South), OutboundLaser(East)>>

\* C16: reorient_inbound_laser(p, d) has index (d - p) mod 4, always in
\* 0..3, and reorient_outbound_laser(p, reorient_inbound_laser(p, d)) = d
C16_ReorientRoundTrip ==
    interaction.kind = "Done" =>
        /\ interaction.local \in 0 .. 3
        /\ interaction.local
               = (interaction.inbound - interaction.before.orientation + 4) % 4
        /\ interaction.back = interaction.inbound

\* the subtraction wrapped: direction North (0) seen by a piece facing West (3)
C16_Witness ==
    /\ interaction.kind = "Done"
    /\ interaction.inbound = North
    /\ interaction.before.orientation = West
    /\ interaction.local = East
    /\ interaction.back = North

\* C18: a token has must_light only if it is a TargetMirror, and target_lit
\* is Some exactly for a TargetMirror, so the expect on target_lit of a
\* must_light token finds a value
C18_MustLightOnlyOnTargets ==
    /\ self_token.must_light => self_token.type_ = "TargetMirror"
    /\ self_token.target_lit # "None" <=> self_token.type_ = "TargetMirror"
    /\ self_token.must_light => self_token.target_lit # "None"

\* a target made without must_light was lit by a beam, then toggled
C18_Witness ==
    /\ interaction.kind = "Done"
    /\ ~interaction.before.must_light
    /\ self_token.type_ = "TargetMirror"
    /\ self_token.must_light
    /\ self_token.target_lit = "Some(true)"

\* the simulation of the board of `c' after reset() on every token
Resimulated(c) == check(Checker_from_solver_node(reset_tokens(c.grid)))

\* C17: after a simulation, reset() on every token gives each token the lit
\* and target_lit of Token::new and keeps its type, orientation and
\* must_light; simulating again then ends with the same lit and target_lit
\* on every token and the same value of solved()
C17_ResetThenResimulate ==
    checker_pc = "done" =>
        /\ \A i \in BoardTokens(checker.grid.cells) :
               reset(checker.grid.cells[i])
                   = Token_new(checker.grid.cells[i].type_,
                               checker.grid.cells[i].orientation,
                               checker.grid.cells[i].must_light)
        /\ Resimulated(checker).grid.cells = checker.grid.cells
        /\ solved(Resimulated(checker)) <=> solved(checker)

\* a solved simulation that lit a target and another token, so that reset()
\* changes the board before it is simulated again
C17_Witness ==
    /\ checker_pc = "done"
    /\ solved(checker)
    /\ \E i, j \in Cells :
          /\ checker.grid.cells[i].target_lit = "Some(true)"
          /\ checker.grid.cells[j].type_ \in {"BeamSplitter", "DoubleMirror", "Checkpoint"}
          /\ checker.grid.cells[j].lit
    /\ reset_tokens(checker.grid) # checker.grid

(***************************************************************************)
(* solve() on a puzzle that is already solved                              *)
(***************************************************************************)
\* nothing is left to place or orient and the simulator finds the board solved
AlreadySolved ==
    /\ tokens_to_be_added = <<>>
    /\ UnorientedCells(initial_grid_config) = {}
    /\ solved(Simulated(initial_grid_config))

\* C19 as stated: on an already solved input solve() reports solved, and the
\* board it reports has target_lit = Some(true) on every target the beam lit
C19_ReportedBoardHasTargetLit ==
    (AlreadySolved /\ result.kind \in {"OkSome", "OkNone"})
        => /\ result.kind = "OkSome"
           /\ \A i \in LitTargets(Simulated(initial_grid_config)) :
                  result.cells[i].target_lit = "Some(true)"

\* C19: on an already solved input solve() reports solved at the first node
\* it pops, and reports the board of the input with every token reset: lit
\* only on Laser and CellBlocker, target_lit = Some(false) on every target,
\* also on those the beam lit; simulating the reported board lights the same
\* targets again
C19_ReportedBoardIsReset ==
    (AlreadySolved /\ result.kind \in {"OkSome", "OkNone"})
        => /\ result.kind = "OkSome"
           /\ expanded = 1
           /\ \A i \in Cells :
                  /\ result.cells[i].type_ = initial_grid_config[i].type_
                  /\ result.cells[i].orientation = initial_grid_config[i].orientation
                  /\ result.cells[i].must_light = initial_grid_config[i].must_light
                  /\ result.cells[i].lit
                         = (result.cells[i].type_ \in {"Laser", "CellBlocker"})
                  /\ result.cells[i].target_lit
                         = IF result.cells[i].type_ = "TargetMirror"
                           THEN "Some(false)" ELSE "None"
           /\ LitTargets(Simulated(result.cells))
                  = LitTargets(Simulated(initial_grid_config))

\* the laser at cell 0 facing East and the target at cell 4 facing West, one
\* target asked for: solved is reported, the target of the reported board is
\* not lit, and it is lit when the reported board is simulated
C19_Witness ==
    /\ result.kind = "OkSome"
    /\ AlreadySolved
    /\ targets = 1
    /\ initial_grid_config = BoardStraight
    /\ result.cells[4].target_lit = "Some(false)"
    /\ LitTargets(Simulated(result.cells)) = {4}

\* some worker has reached a leaf that check_solution accepts and returned it
SolutionFound == \E w \in 1 .. NumWorkers : workers[w].ret # <<>>

\* C20: in the multi-threaded search, once a worker has found a solution no
\* node is popped from the shared stack any more: a worker that holds no node
\* leaves the stack as it is (a step may only push the children of a node
\* that was in flight).
C20_NoPopAfterSolutionFound ==
    [][SolutionFound => Len(par_stack') >= Len(par_stack)]_vars

\* C21: in the multi-threaded search a worker holds the stack lock exactly
\* between locking and popping (or breaking) and between locking and pushing
\* its children; it does not hold it while it builds children or checks a
\* leaf, nor after it has returned or panicked.
C21_LockOnlyAroundStack ==
    \A w \in DOMAIN workers :
        (par_lock = w) <=> (workers[w].pc \in {"locked_top", "locked_push"})

\* one worker works on its node while the other one holds the lock
C21_Witness ==
    \E v, w \in DOMAIN workers :
        /\ workers[v].pc = "work"
        /\ workers[v].node # <<>>
        /\ par_lock = w
        /\ w # v

\* dfs_par has ended: it returned, or it panicked
ParEnded == par_main.pc \in {"returned", "panicked"}

ParReturnedSolution == par_main.pc = "returned" /\ par_main.ret # <<>>

\* C22: for a valid puzzle the multi-threaded search, when it has ended, has
\* returned a solution if and only if the single-threaded dfs returns one
\* for the same puzzle, whatever the interleaving of the workers.
C22_ParReturnsSolutionIffDfsDoes ==
    (ParEnded /\ Puzzle_check_setup(par_main.puzzle[1]))
        => (ParReturnedSolution <=> dfs(par_main.puzzle[1]).kind = "Some")

\* C23: solve() explores depth-first.  A step that changes the stack takes
\* its last (most recently pushed) node and puts that node's children in its
\* place on top: the nodes that were below it stay where they were, so they
\* are reached only after all descendants of the children are gone.
C23_DepthFirst ==
    [][stack' # stack =>
          /\ stack # <<>>
          /\ Len(stack') >= Len(stack) - 1
          /\ SubSeq(stack', 1, Len(stack) - 1) = SubSeq(stack, 1, Len(stack) - 1)]_vars

\* the search is under way with older nodes waiting below the top of the stack
C23_Witness ==
    /\ result.kind = "Searching"
    /\ expanded >= 2
    /\ Len(stack) >= 2

\* a child made by the bag-permutation step: the board of the parent, the
\* bag moved to tokens_to_be_added_shuffled
IsShuffleChild(parent, child) ==
    /\ parent.tokens_to_be_added # <<>>
    /\ child.cells = parent.cells
    /\ child.tokens_to_be_added = <<>>
    /\ child.tokens_to_be_added_shuffled # <<>>

\* a child made by the laser-aware placement: one token of the shuffled bag
\* is on the board
IsLaserAwareChild(parent, child) ==
    /\ parent.tokens_to_be_added_shuffled # <<>>
    /\ Len(child.tokens_to_be_added_shuffled) = Len(parent.tokens_to_be_added_shuffled) - 1
    /\ child.cells # parent.cells

\* the children that a step of solve() pushed: [parent, child] pairs
PushedChildren ==
    IF stack' = stack \/ stack = <<>> THEN {}
    ELSE {<<stack[Len(stack)], stack'[k]>> : k \in Len(stack) .. Len(stack')}

\* C24: bag-permutation children are only made from a node whose laser is
\* placed and oriented and whose on-board tokens all have their orientation
\* set, and laser-aware placement children are only made from a node whose
\* tokens_to_be_added is empty.
C24_ShuffleAfterOrientation ==
    [][\A pc \in PushedChildren :
          /\ IsShuffleChild(pc[1], pc[2]) =>
                 /\ laser_placed_and_rotated(pc[1])
                 /\ all_placed_tokens_have_orientation_set(pc[1])
          /\ IsLaserAwareChild(pc[1], pc[2]) => pc[1].tokens_to_be_added = <<>>]_vars

(***************************************************************************)
(* Properties of SolverNode2::generate_branches                            *)
(***************************************************************************)
\* generate_branches has returned new nodes for the node stack[1]
Branched == result.kind = "Branched"

BranchParent == stack[1]

BranchChildren == Tail(stack)

\* the board ends in direction d at cell i: rows run south to north, columns
\* west to east
OnEdge(i, d) ==
    CASE d = North -> i \div 5 = 4
      [] d = East  -> i % 5 = 4
      [] d = South -> i \div 5 = 0
      [] d = West  -> i % 5 = 0

Neighbour(i, d) ==
    CASE d = North -> i + 5
      [] d = East  -> i + 1
      [] d = South -> i - 5
      [] d = West  -> i - 1

\* the directions in which a beam leaving cell i is lost at once
ForbiddenDirections(cells, i) ==
    {d \in SeqRange(ORIENTATION_ORDER) :
        \/ OnEdge(i, d)
        \/ /\ ~OnEdge(i, d)
           /\ cells[Neighbour(i, d)].type_ = "CellBlocker"
           /\ OnEdge(Neighbour(i, d), d)}

SpiralPosition(i) == CHOOSE k \in 1 .. NumCells : SPIRAL_ORDER[k] = i

\* the Laser taken out of the bag and put on an empty cell in some orientation
LaserPlacements(parent) ==
    {[parent EXCEPT !.cells[i] = Token_new("Laser", d, FALSE),
                    !.tokens_to_be_added =
                        SelectSeq(@, LAMBDA token : token.type_ # "Laser")] :
        i \in {j \in Cells : parent.cells[j] = NoToken},
        d \in SeqRange(ORIENTATION_ORDER)}

LaserInBag(node) ==
    /\ ~laser_placed(node)
    /\ \E k \in DOMAIN node.tokens_to_be_added : node.tokens_to_be_added[k].type_ = "Laser"

\* C25: when the Laser is still in the bag the children are the parent with
\* the Laser taken out of the bag and put on an empty cell, one child for
\* every empty cell and every laser orientation that is not forbidden at that
\* cell, each of them once, the cells in spiral order; nothing else changes
\* and no child has the Laser on a cell that was occupied.
C25_LaserPlacementChildren ==
    (Branched /\ LaserInBag(BranchParent)) =>
        LET children == BranchChildren
            expected ==
                {c \in LaserPlacements(BranchParent) :
                    LET i == laser_position(c)
                    IN  c.cells[i].orientation
                            \notin ForbiddenDirections(BranchParent.cells, i)}
        IN  /\ SeqRange(children) = expected
            /\ Len(children) = Cardinality(expected)
            /\ \A k \in 1 .. Len(children) - 1 :
                   SpiralPosition(laser_position(children[k]))
                       <= SpiralPosition(laser_position(children[k + 1]))
            /\ \A k \in 1 .. Len(children) :
                   BranchParent.cells[laser_position(children[k])] = NoToken

\* the Laser was in the bag with another token, a CellBlocker is on the
\* board, and the laser has been placed in every free cell
C25_Witness ==
    /\ Branched
    /\ LaserInBag(BranchParent)
    /\ Len(BranchParent.tokens_to_be_added) = 2
    /\ \E b \in Cells : BranchParent.cells[b].type_ = "CellBlocker"
    /\ {laser_position(BranchChildren[k]) : k \in 1 .. Len(BranchChildren)}
           = {i \in Cells : BranchParent.cells[i] = NoToken}

\* the array that forbidden_orientations returns, as a set of directions
ForbiddenSet(cells, i) == SeqRange(forbidden_orientations(cells, i)) \ {NoOrientation}

\* C28: for every cell and every position of the CellBlocker,
\* forbidden_orientations does not panic and returns exactly the directions in
\* which the cell is on the edge of the board or has, as its neighbour, the
\* CellBlocker standing on that same edge; every other cell, the centre
\* among them, has no forbidden direction.
C28_ForbiddenOrientationsGeometric ==
    Branched =>
        \A i \in Cells :
            /\ forbidden_orientations(BranchParent.cells, i) # ForbiddenPanic
            /\ ForbiddenSet(BranchParent.cells, i) = ForbiddenDirections(BranchParent.cells, i)

\* the CellBlocker is on an edge, not in a corner, and the laser was placed
\* on the inner cell next to it, in three of the four orientations
C28_Witness ==
    /\ Branched
    /\ BranchParent.cells[9].type_ = "CellBlocker"
    /\ Cardinality({k \in 1 .. Len(BranchChildren) :
                       BranchChildren[k].cells[8].type_ = "Laser"}) = 3

\* a child that has the bags of its parent: it was made by orienting a token
IsOrientationChild(parent, child) ==
    /\ child.tokens_to_be_added = parent.tokens_to_be_added
    /\ child.tokens_to_be_added_shuffled = parent.tokens_to_be_added_shuffled

\* the orientation indices the claim allows a token of the cell
AllowedOrientationIndices(cells, i) ==
    LET token == cells[i]
        forbidden == {to_index(d) : d \in ForbiddenDirections(cells, i)}
        range == CASE token.type_ \in {"BeamSplitter", "DoubleMirror", "Checkpoint"} -> {0, 1}
                   [] token.type_ = "CellBlocker" -> {0}
                   [] OTHER -> {0, 1, 2, 3}
    IN  CASE token.type_ = "Laser" -> range \ forbidden
          [] token.type_ = "Checkpoint" -> range \ {x % 2 : x \in forbidden}
          [] token.type_ = "TargetMirror" /\ token.must_light -> range \ forbidden
          [] OTHER -> range

\* the cells in which two boards differ
ChangedCells(parent, child) == {i \in Cells : child.cells[i] # parent.cells[i]}

\* C26: an orientation child differs from its parent in one token only: the
\* token had no orientation and has the orientation of index x, x in the
\* orientation range of its type and, for a Laser, a Checkpoint (modulo 180
\* degrees) and a must-light TargetMirror, x not a forbidden direction of
\* the cell; a TargetMirror that need not light is not restricted.
C26_OrientationChildren ==
    Branched =>
        \A k \in 1 .. Len(BranchChildren) :
            LET child == BranchChildren[k] IN
            IsOrientationChild(BranchParent, child) =>
                /\ child.targets = BranchParent.targets
                /\ \E i \in Cells :
                      /\ ChangedCells(BranchParent, child) = {i}
                      /\ BranchParent.cells[i] # NoToken
                      /\ BranchParent.cells[i].orientation = NoOrientation
                      /\ \E x \in AllowedOrientationIndices(BranchParent.cells, i) :
                            child.cells[i] =
                                [BranchParent.cells[i] EXCEPT !.orientation = from_index(x)]

\* the beam reached a must-light TargetMirror without orientation on the
\* edge of the board, and fewer than four orientations were tried
C26_Witness ==
    /\ Branched
    /\ Len(BranchChildren) \in 1 .. 3
    /\ \A k \in 1 .. Len(BranchChildren) :
           /\ IsOrientationChild(BranchParent, BranchChildren[k])
           /\ \E i \in ChangedCells(BranchParent, BranchChildren[k]) :
                  BranchParent.cells[i].must_light

(***************************************************************************)
(* Properties of the symmetry classes of the tokens                        *)
(***************************************************************************)
\* the token turned by 180 degrees
HalfTurn(token) == [token EXCEPT !.orientation = (@ + 2) % 4]

\* C27: a BeamSplitter, a DoubleMirror and a Checkpoint behave the same in
\* orientation o and in orientation o + 2 (mod 4): for every inbound
\* direction the set of outbound results is the same and so is the effect
\* on lit (and on every other field but the orientation).
C27_HalfTurnSymmetry ==
    (/\ interaction.kind = "Done"
     /\ interaction.before.type_ \in {"BeamSplitter", "DoubleMirror", "Checkpoint"}) =>
        LET turned == outbound_lasers_given_inbound_laser_direction(
                          HalfTurn(interaction.before), interaction.inbound)
        IN  /\ SeqRange(turned.results) = SeqRange(interaction.results)
            /\ turned.token.lit = interaction.after.lit
            /\ turned.token = HalfTurn(interaction.after)

\* a BeamSplitter facing East split a beam going North: West in its own
\* frame, and East in the frame of the same piece facing West
C27_Witness ==
    /\ interaction.kind = "Done"
    /\ interaction.before.type_ = "BeamSplitter"
    /\ interaction.before.orientation = East
    /\ interaction.inbound = North
    /\ interaction.local = West
    /\ reorient_inbound_laser(West, North) = East
    /\ Cardinality(SeqRange(interaction.results)) = 2
    /\ interaction.after.lit

(***************************************************************************)
(* Properties of the bag-permutation and of the laser-aware placement      *)
(***************************************************************************)
\* the number of tokens of q that are of the k-th kind of the five
KindCount(q, k) ==
    Cardinality({j \in DOMAIN q : /\ q[j].type_ = BagKinds[k].type_
                                  /\ q[j].must_light = BagKinds[k].must_light})

RECURSIVE Factorial(_)
Factorial(n) == IF n = 0 THEN 1 ELSE n * Factorial(n - 1)

\* (n1 + ... + n5)! / (n1! ... n5!) for the bag q
Multinomial(q) ==
    Factorial(Len(q)) \div
        (Factorial(KindCount(q, 1)) * Factorial(KindCount(q, 2))
            * Factorial(KindCount(q, 3)) * Factorial(KindCount(q, 4))
            * Factorial(KindCount(q, 5)))

ShuffleParent(node) ==
    /\ laser_placed_and_rotated(node)
    /\ node.tokens_to_be_added # <<>>

\* C29: the bag-permutation makes one child for each distinct ordering of
\* the bag as a multiset of the five kinds: the children are as many as the
\* multinomial coefficient, no two have the same tokens_to_be_added_shuffled,
\* each tokens_to_be_added_shuffled holds the pieces of the bag, kind by
\* kind, tokens_to_be_added is empty in every child and the cells are those
\* of the parent.
C29_ShuffleChildren ==
    (Branched /\ ShuffleParent(BranchParent)) =>
        LET bag == BranchParent.tokens_to_be_added
            children == BranchChildren
        IN  /\ Len(children) = Multinomial(bag)
            /\ Cardinality({children[k].tokens_to_be_added_shuffled :
                                k \in 1 .. Len(children)}) = Len(children)
            /\ \A k \in 1 .. Len(children) :
                   /\ Len(children[k].tokens_to_be_added_shuffled) = Len(bag)
                   /\ \A t \in 1 .. 5 :
                          KindCount(children[k].tokens_to_be_added_shuffled, t)
                              = KindCount(bag, t)
                   /\ children[k].tokens_to_be_added = <<>>
                   /\ children[k].cells = BranchParent.cells
                   /\ children[k].targets = BranchParent.targets

\* a bag of two must-light mirrors, a free mirror and a beam splitter has
\* 4! / 2! = 12 orderings
C29_Witness ==
    /\ Branched
    /\ ShuffleParent(BranchParent)
    /\ Len(BranchParent.tokens_to_be_added) = 4
    /\ KindCount(BranchParent.tokens_to_be_added, 1) = 2
    /\ KindCount(BranchParent.tokens_to_be_added, 2) = 1
    /\ KindCount(BranchParent.tokens_to_be_added, 5) = 1
    /\ Len(BranchChildren) = 12

\* the laser-aware placement is the step that generate_branches takes on the
\* node; c is the checker after the simulation of the node
PlacementParent(node, c) ==
    /\ laser_placed_and_rotated(node)
    /\ node.tokens_to_be_added = <<>>
    /\ node.tokens_to_be_added_shuffled # <<>>
    /\ c.unoriented_occupied_cells = <<>>

\* the children are the parent with the last token of the shuffled bag
\* moved to an empty cell that the beam visited, one child per such cell
PlacementChildren(parent, children, c) ==
    LET q == parent.tokens_to_be_added_shuffled
        token == q[Len(q)]
        beam == {i \in Cells : /\ parent.cells[i] = NoToken
                               /\ \E d \in 0 .. 3 : c.laser_visited[i][d]}
    IN  /\ Len(children) = Cardinality(beam)
        /\ {children[k].cells : k \in 1 .. Len(children)}
               = {[parent.cells EXCEPT ![i] = token] : i \in beam}
        /\ \A k \in 1 .. Len(children) :
               /\ children[k].tokens_to_be_added_shuffled = SubSeq(q, 1, Len(q) - 1)
               /\ children[k].tokens_to_be_added = <<>>
               /\ children[k].targets = parent.targets
               /\ \E i \in beam : ChangedCells(parent, children[k]) = {i}

\* C30: a laser-aware placement step takes the last token of
\* tokens_to_be_added_shuffled and makes one child for each cell that is
\* empty and that the beam visited in the simulation of the parent; a child
\* is the parent but for that cell, which holds the token, and for the
\* shuffled bag, which is one shorter; no token is put on an occupied cell
\* or on a cell the beam did not visit.
C30_LaserAwarePlacement ==
    (/\ Branched
     /\ PlacementParent(BranchParent, check(Checker_from_solver_node(BranchParent))))
        => PlacementChildren(BranchParent, BranchChildren,
                             check(Checker_from_solver_node(BranchParent)))

\* the beam of the laser in cell 0 runs east through the empty cells 1, 2
\* and 3 to the target in cell 4: the last of two shuffled tokens was placed
\* in each of the three
C30_Witness ==
    /\ Branched
    /\ BranchParent.cells = BoardStraight
    /\ Len(BranchParent.tokens_to_be_added_shuffled) = 2
    /\ Len(BranchChildren) = 3
    /\ \A k \in 1 .. 3 :
           /\ ChangedCells(BranchParent, BranchChildren[k]) \subseteq {1, 2, 3}
           /\ Len(BranchChildren[k].tokens_to_be_added_shuffled) = 1

(***************************************************************************)
(* Properties of the beams of Checker::check                               *)
(***************************************************************************)
\* the active lasers of the checker c, as slots of active_lasers
ActiveSlots(c) == {k \in 1 .. 4 : c.active_lasers[k] # NoLaser}

\* the slots whose beam steps onto a token without orientation
PausedSlots(c) ==
    {k \in ActiveSlots(c) :
        LET p == next_position(c.active_lasers[k])
        IN  /\ p # NoPosition
            /\ c.grid.cells[p] # NoToken
            /\ c.grid.cells[p].orientation = NoOrientation}

\* C31: a beam that reaches a token without orientation is dropped for the
\* pass (no active laser is scheduled in that cell), the cell index is
\* appended to unoriented_occupied_cells, the token is left as it was, lit
\* and target_lit included, and the beam does not clear
\* all_lasers_remain_on_board.
C31_UnorientedTokenPausesBeam ==
    [][(checker_pc = "running" /\ checker' # checker) =>
          LET paused == PausedSlots(checker)
              cellsReached == {next_position(checker.active_lasers[k]) : k \in paused}
              n == Len(checker.unoriented_occupied_cells)
              recorded == checker'.unoriented_occupied_cells
          IN  /\ Len(recorded) = n + Cardinality(paused)
              /\ SubSeq(recorded, 1, n) = checker.unoriented_occupied_cells
              /\ {recorded[j] : j \in n + 1 .. Len(recorded)} = cellsReached
              /\ \A p \in cellsReached :
                     /\ checker'.grid.cells[p] = checker.grid.cells[p]
                     /\ \A k \in 1 .. 4 : checker'.active_lasers[k].cell_index # p
              /\ paused = ActiveSlots(checker) =>
                     checker'.all_lasers_remain_on_board
                         = checker.all_lasers_remain_on_board]_vars

\* the simulation has ended with a cell recorded for orientation branching,
\* its token not lit, and every beam still counted as on the board
C31_Witness ==
    /\ checker_pc = "done"
    /\ checker.unoriented_occupied_cells # <<>>
    /\ checker.all_lasers_remain_on_board
    /\ \A j \in DOMAIN checker.unoriented_occupied_cells :
           LET token == checker.grid.cells[checker.unoriented_occupied_cells[j]]
           IN  /\ token.orientation = NoOrientation
               /\ ~token.lit
               /\ token.target_lit # "Some(true)"

\* the beam of slot k of the checker c leaves the board, or ends on a side
\* of a Laser, a Checkpoint or a TargetMirror that gives an invalid
\* termination
BeamLost(c, k) ==
    LET laser == c.active_lasers[k]
        p == next_position(laser)
    IN  \/ p = NoPosition
        \/ /\ p # NoPosition
           /\ c.grid.cells[p] # NoToken
           /\ c.grid.cells[p].orientation # NoOrientation
           /\ NONE_INVALID \in SeqRange(outbound_lasers_given_inbound_laser_direction(
                                             c.grid.cells[p], laser.orientation).results)

\* the node of the checker, as it was before the simulation
SimulatedNode == reset_tokens(checker.grid)

\* C32: a beam that steps off the board, or that hits a Laser, a Checkpoint
\* or a TargetMirror on a side that gives an invalid termination, clears
\* all_lasers_remain_on_board; the flag is never set back; solved() is false
\* whenever the flag is cleared, whatever targets are lit; and the search
\* does not fail on such a node: generate_branches returns Err(new nodes).
C32_LostBeamNeverSolved ==
    /\ [][(checker_pc = "running" /\ checker' # checker) =>
              /\ (\E k \in ActiveSlots(checker) : BeamLost(checker, k))
                     => ~checker'.all_lasers_remain_on_board
              /\ ~checker.all_lasers_remain_on_board
                     => ~checker'.all_lasers_remain_on_board]_vars
    /\ [](~checker.all_lasers_remain_on_board => ~solved(checker))
    /\ []((checker_pc = "done" /\ ~checker.all_lasers_remain_on_board) =>
              /\ ~checker.panicked
              /\ generate_branches(SimulatedNode).kind = "Err")

\* the simulation has ended with a beam lost and yet as many targets lit as
\* the puzzle asks for, every token lit and nothing left to place
C32_Witness ==
    /\ checker_pc = "done"
    /\ ~checker.all_lasers_remain_on_board
    /\ checker.grid.targets = count_lit_targets(checker)
    /\ all_required_targets_lit(checker)
    /\ all_tokens_lit(checker)
    /\ ~remaining_tokens_to_be_added(checker)

(***************************************************************************)
(* Properties of the nodes that solve() reaches                            *)
(***************************************************************************)
\* validation has passed: the search is under way or has returned Ok
ValidationPassed == result.kind \in {"Searching", "OkSome", "OkNone"}

\* the number of tokens of a type and must_light flag on a board and in two bags
PieceCount(cells, bag, shuffled, type_, must_light) ==
    LET is(token) == token.type_ = type_ /\ token.must_light = must_light
    IN  Cardinality({i \in Cells : is(cells[i])})
            + Cardinality({j \in DOMAIN bag : is(bag[j])})
            + Cardinality({j \in DOMAIN shuffled : is(shuffled[j])})

\* the node holds the pieces of the initial puzzle, no more and no fewer
HoldsThePieces(cells, bag, shuffled) ==
    \A type_ \in SeqRange(TOKEN_TYPES), must_light \in BOOLEAN :
        PieceCount(cells, bag, shuffled, type_, must_light)
            = PieceCount(initial_grid_config, tokens_to_be_added, <<>>, type_, must_light)

\* C33: in every node that solve() reaches from a puzzle that passes
\* validation there is exactly one Laser across the cells and the two bags,
\* and the tokens of every type and must_light flag across the cells and the
\* two bags are as many as in the initial puzzle: no piece is duplicated or
\* lost.  The root is the initial puzzle; every node that a step pushes is
\* looked at, and so is the board that solve() returns.
C33_PiecesConserved ==
    /\ [][ValidationPassed =>
              \A pc \in PushedChildren :
                  /\ PieceCount(pc[2].cells, pc[2].tokens_to_be_added,
                                pc[2].tokens_to_be_added_shuffled, "Laser", FALSE) = 1
                  /\ HoldsThePieces(pc[2].cells, pc[2].tokens_to_be_added,
                                    pc[2].tokens_to_be_added_shuffled)]_vars
    /\ [](result.kind = "OkSome" => HoldsThePieces(result.cells, <<>>, <<>>))

\* the laser and a must-light target started in the bag and the search is
\* past the permutation of the bag, with a token already placed in the beam
C33_Witness ==
    /\ result.kind = "Searching"
    /\ \E j \in DOMAIN tokens_to_be_added : tokens_to_be_added[j].type_ = "Laser"
    /\ \E j \in DOMAIN tokens_to_be_added : tokens_to_be_added[j].must_light
    /\ \E k \in DOMAIN stack :
           /\ stack[k].tokens_to_be_added = <<>>
           /\ stack[k].tokens_to_be_added_shuffled = <<>>
           /\ \E i \in Cells : stack[k].cells[i].must_light

(***************************************************************************)
(* Properties of the simulations that solve() runs                         *)
(***************************************************************************)
\* a simulation of a node of the search is under way or has just ended
Simulating == result.kind \in {"Checking", "Generating"}

\* C34: on a puzzle that passes validation the simulator is only started on
\* a node whose Laser is on the board with its orientation set, and a token
\* without orientation is never interacted with: it stays unlit as it was,
\* and neither expect on the orientation fires (no simulation panics).
C34_SimulatorPreconditions ==
    /\ result.kind # "Panic"
    /\ Simulating =>
          /\ ~checker.panicked
          /\ \E i \in Cells : checker.grid.cells[i].type_ = "Laser"
          /\ \A i \in Cells :
                 checker.grid.cells[i].type_ = "Laser"
                     => checker.grid.cells[i].orientation # NoOrientation
          /\ \A i \in Cells :
                 (/\ checker.grid.cells[i] # NoToken
                  /\ checker.grid.cells[i].orientation = NoOrientation)
                     => /\ checker.grid.cells[i] = reset(checker.grid.cells[i])
                        /\ \A d \in 0 .. 3 : ~checker.laser_visited[i][d]

\* the puzzle had the laser in the bag; the simulation of a node of the
\* search has ended with the beam stopped at a token without orientation
C34_Witness ==
    /\ result.kind = "Checking"
    /\ checker_pc = "done"
    /\ \E j \in DOMAIN tokens_to_be_added : tokens_to_be_added[j].type_ = "Laser"
    /\ checker.unoriented_occupied_cells # <<>>

\* the (cell, direction) pairs of the active lasers of the checker c
ScheduledPairs(c) ==
    {<<c.active_lasers[k].cell_index, to_index(c.active_lasers[k].orientation)>> :
        k \in ActiveSlots(c)}

\* the (cell, direction) pairs marked in laser_visited
VisitedPairs(c) ==
    {pair \in Cells \X (0 .. 3) : c.laser_visited[pair[1]][pair[2]]}

\* C35: within one simulation no (cell, direction) pair is scheduled as an
\* active laser more than once, out of a token or through an empty cell.
\* The pairs marked visited are the pairs scheduled so far; an iteration
\* schedules only pairs that were not marked, each in one slot, and marks
\* them: a beam whose outbound pair is already marked is dropped.  One
\* simulation is one call of check() on a checker made from a node; the call
\* that Checker::generate_branches makes on the checker it is given starts
\* from the marks of the first and walks the laser's own line again.
C35_NoPairScheduledTwice ==
    /\ [][(checker_pc = "created" /\ checker' # checker) =>
              /\ VisitedPairs(checker) = {}
              /\ VisitedPairs(checker') = ScheduledPairs(checker')]_vars
    /\ [][(checker_pc = "running" /\ checker' # checker) =>
              /\ ScheduledPairs(checker') \cap VisitedPairs(checker) = {}
              /\ VisitedPairs(checker') = VisitedPairs(checker) \cup ScheduledPairs(checker')
              /\ Cardinality(ScheduledPairs(checker'))
                     = Cardinality(ActiveSlots(checker'))]_vars

\* a beam is about to come back to a token in a direction in which a beam
\* has already left it
C35_Witness ==
    /\ checker_pc = "running"
    /\ \E k \in ActiveSlots(checker) :
          LET laser == checker.active_lasers[k]
              p == next_position(laser)
          IN  /\ p # NoPosition
              /\ checker.grid.cells[p] # NoToken
              /\ checker.grid.cells[p].orientation # NoOrientation
              /\ \E j \in 1 .. 2 :
                    LET res == outbound_lasers_given_inbound_laser_direction(
                                   checker.grid.cells[p], laser.orientation).results[j]
                    IN  /\ res.kind = "OutboundLaser"
                        /\ checker.laser_visited[p][to_index(res.orientation)]

\* the state Token::new and Token::reset give: lit for Laser and CellBlocker
\* only, target_lit Some(false) for a TargetMirror
InResetState(token) ==
    /\ token.lit = (token.type_ \in {"Laser", "CellBlocker"})
    /\ token.type_ = "TargetMirror" => token.target_lit = "Some(false)"

NodeIsReset(node) ==
    /\ \A i \in Cells : node.cells[i] # NoToken => InResetState(node.cells[i])
    /\ \A j \in DOMAIN node.tokens_to_be_added : InResetState(node.tokens_to_be_added[j])
    /\ \A j \in DOMAIN node.tokens_to_be_added_shuffled :
           InResetState(node.tokens_to_be_added_shuffled[j])

\* the nodes that a step put on the stack
NewNodes ==
    {stack'[k] : k \in {j \in DOMAIN stack' : j > Len(stack) \/ stack'[j] # stack[j]}}

\* C36: every node that solve() pushes on the stack has all its tokens in
\* the reset state, lit only for Laser and CellBlocker and target_lit
\* Some(false) for every TargetMirror: nothing that the simulation of the
\* parent lit is lit in a child.
C36_PushedNodesAreReset ==
    [][\A node \in NewNodes : NodeIsReset(node)]_vars

\* the simulation of a node lit a target and a token that is not the laser;
\* the children of the node are on the stack, the last of them on top
C36_Witness ==
    /\ result.kind = "Searching"
    /\ checker_pc = "idle"
    /\ expanded > 0
    /\ stack # <<>>
    /\ \E i \in Cells : checker.grid.cells[i].target_lit = "Some(true)"
    /\ Cardinality(ChangedCells(reset_tokens(checker.grid), TopNode)) = 1
    /\ \A i \in Cells : checker.grid.cells[i] # NoToken => TopNode.cells[i] # NoToken
    /\ NodeIsReset(TopNode)

(***************************************************************************)
(* Properties of the board that solve() returns                            *)
(***************************************************************************)
\* C37: in a board that solve() returns, every cell that held a token in
\* the initial grid holds a token of the same type and must_light flag, in
\* the same orientation if the orientation was set: the solver fills empty
\* cells only and sets only orientations that were None.
C37_InitialTokensKept ==
    result.kind = "OkSome" =>
        \A i \in Cells :
            initial_grid_config[i] # NoToken =>
                /\ result.cells[i].type_ = initial_grid_config[i].type_
                /\ result.cells[i].must_light = initial_grid_config[i].must_light
                /\ initial_grid_config[i].orientation # NoOrientation =>
                       result.cells[i].orientation = initial_grid_config[i].orientation

\* a board was returned for a puzzle with a token to place and a token of
\* the grid to orient: a cell was filled and an orientation was set
C37_Witness ==
    /\ result.kind = "OkSome"
    /\ tokens_to_be_added # <<>>
    /\ \E i \in Cells : /\ initial_grid_config[i] # NoToken
                         /\ initial_grid_config[i].orientation = NoOrientation
                         /\ result.cells[i].orientation # NoOrientation
    /\ \E i \in Cells : /\ initial_grid_config[i] = NoToken
                         /\ result.cells[i] # NoToken
    /\ \E i \in Cells : /\ initial_grid_config[i] # NoToken
                         /\ initial_grid_config[i].orientation # NoOrientation

(***************************************************************************)
(* Properties of the orientation pruning                                   *)
(***************************************************************************)
\* the orientation indices of the range of the token of cell i that
\* orientation_iter does not try
ExcludedOrientationIndices(cells, i) ==
    SeqRange(orientation_range(cells[i].type_))
        \ SeqRange(orientation_iter(cells, cells[i].type_, i))

\* the orientation index of a token, modulo 180 degrees for the Checkpoint
PrunedIndex(token) ==
    IF token.type_ = "Checkpoint" THEN to_index(token.orientation) % 2
    ELSE to_index(token.orientation)

\* C38: the pruning of orientations removes no solution: a board that the
\* simulator reports solved has no Laser, Checkpoint or must-light
\* TargetMirror in an orientation (modulo 180 degrees for the Checkpoint)
\* that orientation_iter excludes for its cell.
C38_PruningKeepsSolutions ==
    (checker_pc \in {"checked", "done"} /\ solved(checker)) =>
        \A i \in Cells :
            LET token == checker.grid.cells[i] IN
            (\/ token.type_ \in {"Laser", "Checkpoint"}
             \/ (token.type_ = "TargetMirror" /\ token.must_light))
                => PrunedIndex(token) \notin ExcludedOrientationIndices(checker.grid.cells, i)

\* a solved board with the laser in a corner, a checkpoint on the edge next
\* to it and the target at the end of the edge: each of the three has
\* orientations that are excluded, and is in none of them
C38_Witness ==
    /\ checker_pc = "done"
    /\ solved(checker)
    /\ \E i \in Cells :
          /\ checker.grid.cells[i].type_ = "Checkpoint"
          /\ ExcludedOrientationIndices(checker.grid.cells, i) # {}
    /\ \A i \in Cells :
          checker.grid.cells[i].type_ \in {"Laser", "TargetMirror"}
              => Cardinality(ExcludedOrientationIndices(checker.grid.cells, i)) = 2

\* the nodes of the search tree of dfs_par under a node: the node, and the
\* nodes under the children that a worker makes of it
RECURSIVE ParTree(_)
ParTree(node) ==
    LET new_nodes == worker_new_nodes(node).new_nodes IN
    {node} \cup UNION {ParTree(new_nodes[k]) : k \in DOMAIN new_nodes}

\* the leaves under a node on which check_solution does not answer false
ParOpenLeaves(node) ==
    {leaf \in ParTree(node) :
        /\ worker_new_nodes(leaf).new_nodes = <<>>
        /\ Puzzle_check_solution(worker_new_nodes(leaf).node) # "false"}

\* the nodes that wait to be expanded: on the shared stack, popped by a
\* worker that has not yet worked on it, or made by a worker that has not yet
\* pushed them
ParPending ==
    {par_stack[k] : k \in DOMAIN par_stack}
      \cup UNION {IF workers[w].pc = "work" THEN {workers[w].node[1]}
                  ELSE IF workers[w].pc \in {"lock_push", "locked_push"}
                  THEN {workers[w].new_nodes[k] : k \in DOMAIN workers[w].new_nodes}
                  ELSE {} : w \in DOMAIN workers}

\* no worker has ended at a leaf: none returned Some and none panicked
ParNoLeafEnded ==
    \A w \in DOMAIN workers : workers[w].ret = <<>> /\ workers[w].pc # "panicked"

ParReturnedNone == par_main.pc = "returned" /\ par_main.ret = <<>>

\* C39: in the multi-threaded search a step that takes a node off the shared
\* stack takes the top node only and gives it to exactly one worker, who
\* held none; as long as no worker has ended at a leaf, every leaf of the
\* search tree that check_solution would not reject lies under a node that
\* still waits to be expanded; and when dfs_par has returned None no node
\* waits any more, every worker has returned None, and the tree has no such
\* leaf - also when a worker saw the stack empty and left while another one
\* still held children to push.
C39_EveryNodeExpandedBeforeNone ==
    /\ [][Len(par_stack') < Len(par_stack) =>
            /\ par_stack' = SubSeq(par_stack, 1, Len(par_stack) - 1)
            /\ \E w \in DOMAIN workers :
                  /\ workers[w].node = <<>>
                  /\ workers'[w].node = <<par_stack[Len(par_stack)]>>
                  /\ workers'[w].pc = "work"
                  /\ \A v \in DOMAIN workers \ {w} : workers'[v] = workers[v]]_vars
    /\ []((par_main.pc \in {"spawning", "joining"} /\ ParNoLeafEnded) =>
            ParOpenLeaves(par_main.puzzle[1])
                \subseteq UNION {ParTree(node) : node \in ParPending})
    /\ [](ParReturnedNone =>
            /\ ParPending = {}
            /\ \A w \in DOMAIN workers :
                  workers[w].pc = "returned" /\ workers[w].ret = <<>>
            /\ ParOpenLeaves(par_main.puzzle[1]) = {})

\* a worker saw the stack empty and returned None while another worker holds
\* the children of the node it expanded, which it has yet to push
C39_Witness ==
    \E v, w \in DOMAIN workers :
        /\ workers[v].pc = "returned"
        /\ workers[v].ret = <<>>
        /\ workers[w].pc = "lock_push"
        /\ workers[w].new_nodes # <<>>
        /\ par_stack = <<>>

\* the row and the column of a cell: row 0 is the bottom row, column 0 the
\* left column
RowOf(i) == i \div 5
ColumnOf(i) == i % 5

\* the beam in cell i with orientation o leaves the board with its next step
LeavesBoard(i, o) ==
    \/ o = North /\ RowOf(i) = 4
    \/ o = East /\ ColumnOf(i) = 4
    \/ o = South /\ RowOf(i) = 0
    \/ o = West /\ ColumnOf(i) = 0

\* the beam that initialize() starts: in the cell of the laser, with the
\* orientation of the laser
FirstBeam ==
    LET l == Min(LaserCellsOf(checker.grid.cells))
    IN  ActiveLaser(l, checker.grid.cells[l].orientation)

\* the step of an orientation, as a difference of cell indices
StepOf(o) ==
    CASE o = North -> 5 [] o = East -> 1 [] o = South -> 0 - 5 [] o = West -> 0 - 1

\* C40: for the beam of a laser in any cell with any orientation,
\* next_position answers None exactly when the beam is in the top row going
\* North, in the right column going East, in the bottom row going South or in
\* the left column going West; otherwise it answers a cell index of the board,
\* the index plus 5, plus 1, minus 5 or minus 1, which is one step away in the
\* same column (North, South) or in the same row (East, West).  The
\* simulation acts on that answer: with None the beam has left the board,
\* with an empty cell the beam is recorded there.
C40_NextPositionStaysOnBoard ==
    LET i == FirstBeam.cell_index
        o == FirstBeam.orientation
        p == next_position(FirstBeam)
    IN  /\ (p = NoPosition) <=> LeavesBoard(i, o)
        /\ p # NoPosition =>
              /\ p \in Cells
              /\ p = i + StepOf(o)
              /\ o \in {North, South} =>
                    /\ ColumnOf(p) = ColumnOf(i)
                    /\ RowOf(p) - RowOf(i) \in {-1, 1}
              /\ o \in {East, West} =>
                    /\ RowOf(p) = RowOf(i)
                    /\ ColumnOf(p) - ColumnOf(i) \in {-1, 1}
        /\ checker_pc # "created" =>
              /\ p = NoPosition => ~checker.all_lasers_remain_on_board
              /\ (p # NoPosition /\ checker.grid.cells[p] = NoToken)
                    => checker.laser_visited[p][to_index(o)]

\* the simulation has run on a board whose laser is in the right column,
\* above the bottom row and below the top row, and faces East: the beam has
\* left the board and is in no cell of the next row
C40_Witness ==
    /\ checker_pc = "checked"
    /\ FirstBeam.orientation = East
    /\ ColumnOf(FirstBeam.cell_index) = 4
    /\ RowOf(FirstBeam.cell_index) \in 1 .. 3
    /\ ~checker.all_lasers_remain_on_board
    /\ \A j \in Cells \ {FirstBeam.cell_index} : \A d \in North .. West :
          ~checker.laser_visited[j][to_index(d)]

====
